---- MODULE Spec2Model ----
(***************************************************************************)
(* A model of the QuantDesk backtesting core: the risk helpers             *)
(* (app/core/risk.py), the portfolio book-keeping (app/core/portfolio.py), *)
(* the rule-expression evaluator (app/signals/rules.py) and the simulation *)
(* loop (app/backtest/engine.py).                                          *)
(*                                                                         *)
(* Python floats are modelled as exact rationals <<n, d>> (d > 0, lowest   *)
(* terms): every comparison and every arithmetic step of the code is done  *)
(* exactly, and a division by zero is the ZeroDivisionError Python raises. *)
(***************************************************************************)
EXTENDS Integers, Sequences, FiniteSets, TLC

VARIABLES
    fn,         \* pure-function harness: the function under call ("none" when idle)
    args,       \* its arguments (a record), drawn by the initial state
    res,        \* its outcome: [exc |-> ..., val |-> ...] once it has returned
    cash,       \* Portfolio.cash
    positions,  \* Portfolio.positions: a dict, symbol -> Position
    last,       \* the latest Portfolio call: its order, outcome and pre-state
    nops,       \* number of Portfolio calls made so far
    nonneg,     \* every order given to the Portfolio so far had quantity >= 0
    pc,              \* BacktestEngine.run: where the run stands
    cfg,             \* the run's arguments and EngineConfig
    tick,            \* timestamp: the date of the loop over all_dates (0 before it)
    sym_idx,         \* index of the symbol of the inner loop
    price_snapshot,  \* price_snapshot: symbol -> close, for the bars at tick
    equity_now,      \* equity, as computed at the top of the timestamp
    equity_history,  \* Portfolio.equity_history
    orders,          \* orders
    order_ts,        \* for each order, the timestamp it was appended at
    trades,          \* trades
    open_positions,  \* open_positions: symbol -> entry_date, entry_price
    seen_valid,      \* the symbols that have had a bar with no NaN feature processed
    positive_prices, \* every close and low the run has read so far is above 0
    raised           \* the exception run raised ("none" while it has not)

engineVars == <<pc, cfg, tick, sym_idx, price_snapshot, equity_now, equity_history,
                orders, order_ts, trades, open_positions, seen_valid, positive_prices,
                raised>>
vars == <<fn, args, res, cash, positions, last, nops, nonneg, engineVars>>

---------------------------------------------------------------------------
(* Exact arithmetic standing for Python's float arithmetic.                *)

AbsInt(n) == IF n < 0 THEN -n ELSE n

RECURSIVE GCD(_, _)
GCD(a, b) == IF b = 0 THEN a ELSE GCD(b, a % b)

\* The rational n/d in lowest terms with a positive denominator (d # 0).
Rat(n, d) ==
    LET g == GCD(AbsInt(n), AbsInt(d))
        s == IF d < 0 THEN -1 ELSE 1
    IN  <<(s * n) \div g, (s * d) \div g>>

Zero == <<0, 1>>
One == <<1, 1>>
Int2R(n) == <<n, 1>>

RAdd(a, b) == Rat(a[1] * b[2] + b[1] * a[2], a[2] * b[2])
RSub(a, b) == Rat(a[1] * b[2] - b[1] * a[2], a[2] * b[2])
RMul(a, b) == Rat(a[1] * b[1], a[2] * b[2])
\* a / b for b # 0; the callers test b = Zero first (ZeroDivisionError).
RDiv(a, b) == Rat(a[1] * b[2], a[2] * b[1])
RLt(a, b) == a[1] * b[2] < b[1] * a[2]
RLe(a, b) == a[1] * b[2] <= b[1] * a[2]
RGt(a, b) == RLt(b, a)
RGe(a, b) == RLe(b, a)
RAbs(a) == <<AbsInt(a[1]), a[2]>>
\* Python's max(a, b) and min(a, b) on two numbers.
RMax(a, b) == IF RGt(b, a) THEN b ELSE a
RMin(a, b) == IF RLt(b, a) THEN b ELSE a

\* The outcome of a call: a returned value, or the exception it raised.
Ret(v) == [exc |-> "none", val |-> v]
Raise(e) == [exc |-> e, val |-> Zero]

---------------------------------------------------------------------------
(* app/core/risk.py                                                        *)

\* position_size_vol_target with the stop distance taken as the ATR alone.
position_size_vol_target_NoMultiple(equity, price, atr, risk_per_trade, atr_multiple) ==
    IF RLe(price, Zero) \/ RLe(atr, Zero) THEN Zero
    ELSE LET dollar_risk == RMul(equity, risk_per_trade)
             stop_distance == atr
         IN  IF RLe(stop_distance, Zero) THEN Zero
             ELSE RMax(RDiv(dollar_risk, stop_distance), Zero)

position_size_vol_target(equity, price, atr, risk_per_trade, atr_multiple) ==
    IF RLe(price, Zero) \/ RLe(atr, Zero) THEN Zero
    ELSE LET dollar_risk == RMul(equity, risk_per_trade)
             stop_distance == RMul(atr, atr_multiple)
         IN  IF RLe(stop_distance, Zero) THEN Zero
             ELSE RMax(RDiv(dollar_risk, stop_distance), Zero)

\* params is a RiskParameters record; max_positions is an int, tested for
\* truth before it is compared (0 is false in Python).
apply_position_limits(desired_qty, price, equity, params, current_positions, gross_exposure) ==
    IF params.max_positions # 0 /\ current_positions >= params.max_positions
    THEN Ret(Zero)
    ELSE IF RLe(equity, Zero) THEN Ret(Zero)
    ELSE
      LET max_position_value == RMul(equity, params.max_position_pct)
          desired_value == RMul(desired_qty, price)
          capped == RGt(desired_value, max_position_value)
      IN  IF capped /\ price = Zero THEN Raise("ZeroDivisionError")
          ELSE
            LET qty1 == IF capped THEN RDiv(max_position_value, price) ELSE desired_qty
                projected_exposure ==
                    RAdd(gross_exposure, RDiv(RAbs(RMul(qty1, price)), equity))
                over == RGt(projected_exposure, params.max_gross_exposure)
                allowed_value ==
                    RMul(RMax(RSub(params.max_gross_exposure, gross_exposure), Zero), equity)
            IN  IF over /\ price = Zero THEN Raise("ZeroDivisionError")
                ELSE LET qty2 == IF over THEN RDiv(allowed_value, price) ELSE qty1
                     IN  Ret(RMax(qty2, Zero))

\* stop_from_atr returns None for a non-positive ATR or an unknown direction.
NoneVal == <<0, 0>>
stop_from_atr(entry_price, atr, multiple, direction) ==
    IF RLe(atr, Zero) THEN NoneVal
    ELSE IF direction = "long" THEN RSub(entry_price, RMul(atr, multiple))
    ELSE IF direction = "short" THEN RAdd(entry_price, RMul(atr, multiple))
    ELSE NoneVal

---------------------------------------------------------------------------
(* app/core/portfolio.py                                                   *)

Symbols == {"AAA", "BBB"}

\* Order(symbol, quantity, price, side, reason)
Order(symbol, quantity, price, side, reason) ==
    [symbol |-> symbol, quantity |-> quantity, price |-> price,
     side |-> side, reason |-> reason]

\* Position(symbol, quantity, avg_price); stop_price defaults to None.
Position(symbol, quantity, avg_price) ==
    [symbol |-> symbol, quantity |-> quantity, avg_price |-> avg_price,
     stop_price |-> NoneVal]

\* del d[key]
DictDel(d, key) == [k \in (DOMAIN d) \ {key} |-> d[k]]
\* d[key] = value
DictSet(d, key, value) ==
    [k \in (DOMAIN d) \cup {key} |-> IF k = key THEN value ELSE d[k]]
EmptyDict == [k \in {} |-> NoneVal]

\* update_stop that takes the new stop whatever the current one is.
update_stop_Always(position, new_stop) ==
    [position EXCEPT !.stop_price = new_stop]

\* Position.update_stop: the stop only ever moves up.
update_stop(position, new_stop) ==
    IF position.stop_price = NoneVal \/ RGt(new_stop, position.stop_price)
    THEN [position EXCEPT !.stop_price = new_stop]
    ELSE position

\* The outcome of a Portfolio method: the exception raised (or "none") and
\* the portfolio's cash and positions when it returns or raises.
Outcome(exc, c, p) == [exc |-> exc, cash |-> c, positions |-> p]

\* Portfolio.add_position
add_position(c, p, order) ==
    IF order.side # "buy" THEN Outcome("ValueError", c, p)
    ELSE IF order.symbol \in DOMAIN p
    THEN LET existing == p[order.symbol]
             total_qty == RAdd(existing.quantity, order.quantity)
         IN  IF RLe(total_qty, Zero)
             THEN Outcome("none", c, DictDel(p, order.symbol))
             ELSE LET new_avg ==
                          RDiv(RAdd(RMul(existing.avg_price, existing.quantity),
                                    RMul(order.price, order.quantity)),
                               total_qty)
                  IN  Outcome("none",
                              RSub(c, RMul(order.quantity, order.price)),
                              [p EXCEPT ![order.symbol] =
                                  [existing EXCEPT !.quantity = total_qty,
                                                   !.avg_price = new_avg]])
    ELSE Outcome("none",
                 RSub(c, RMul(order.quantity, order.price)),
                 DictSet(p, order.symbol,
                         Position(order.symbol, order.quantity, order.price)))

\* remove_position that sells the order's quantity and keeps the Position.
remove_position_Oversell(c, p, order) ==
    IF order.side # "sell" THEN Outcome("ValueError", c, p)
    ELSE IF order.symbol \notin DOMAIN p THEN Outcome("none", c, p)
    ELSE LET existing == p[order.symbol]
             sell_qty == order.quantity
             left == RSub(existing.quantity, sell_qty)
         IN  Outcome("none", RAdd(c, RMul(sell_qty, order.price)),
                     [p EXCEPT ![order.symbol] = [existing EXCEPT !.quantity = left]])

\* Portfolio.remove_position
remove_position(c, p, order) ==
    IF order.side # "sell" THEN Outcome("ValueError", c, p)
    ELSE IF order.symbol \notin DOMAIN p THEN Outcome("none", c, p)
    ELSE LET existing == p[order.symbol]
             sell_qty == RMin(order.quantity, existing.quantity)
             left == RSub(existing.quantity, sell_qty)
             proceeds == RMul(sell_qty, order.price)
         IN  Outcome("none", RAdd(c, proceeds),
                     IF RLe(left, Zero)
                     THEN DictDel(p, order.symbol)
                     ELSE [p EXCEPT ![order.symbol] =
                              [existing EXCEPT !.quantity = left]])

---------------------------------------------------------------------------
(* The Portfolio driven by arbitrary orders (SpecPortfolio).               *)

MaxOps == 3
InitialCash == Int2R(10)
OrderQuantities == {Int2R(-1), Zero, One, Int2R(2)}
OrderPrices == {One, Int2R(2)}
Sides == {"buy", "sell"}
NoOrder == Order("", Zero, Zero, "", "")
NoCall == [op |-> "none", order |-> NoOrder, exc |-> "none",
           cash |-> Zero, positions |-> EmptyDict]

portfolioVars == <<cash, positions, last, nops, nonneg>>

\* The state of the Portfolio variables in the specifications that do not
\* construct a Portfolio.
PortfolioIdle ==
    /\ cash = Zero
    /\ positions = EmptyDict
    /\ last = NoCall
    /\ nops = 0
    /\ nonneg = TRUE

\* The state of the run's variables in the specifications without a run.
EngineIdle ==
    /\ pc = "idle" /\ cfg = [name |-> "none"] /\ tick = 0 /\ sym_idx = 0
    /\ price_snapshot = EmptyDict /\ equity_now = Zero /\ equity_history = <<>>
    /\ orders = <<>> /\ order_ts = <<>> /\ trades = <<>>
    /\ open_positions = EmptyDict /\ seen_valid = {} /\ raised = "none"
    /\ positive_prices = TRUE

\* The state of the pure-function harness in the other specifications.
HarnessIdle == fn = "none" /\ args = [none |-> TRUE] /\ res = Ret(Zero)

InitPortfolio ==
    /\ HarnessIdle /\ EngineIdle
    /\ cash = InitialCash
    /\ positions = EmptyDict
    /\ last = NoCall
    /\ nops = 0
    /\ nonneg = TRUE

\* One call of a Portfolio method with an order; a raise leaves the state.
PortfolioCall(op, order, out) ==
    /\ nops < MaxOps
    /\ nops' = nops + 1
    /\ nonneg' = (nonneg /\ RGe(order.quantity, Zero))
    /\ last' = [op |-> op, order |-> order, exc |-> out.exc,
                cash |-> cash, positions |-> positions]
    /\ cash' = out.cash
    /\ positions' = out.positions
    /\ UNCHANGED <<fn, args, res, engineVars>>

AddPosition ==
    \E sym \in Symbols, q \in OrderQuantities, pr \in OrderPrices, side \in Sides :
        LET order == Order(sym, q, pr, side, "")
        IN  PortfolioCall("add_position", order, add_position(cash, positions, order))

RemovePosition ==
    \E sym \in Symbols, q \in OrderQuantities, pr \in OrderPrices, side \in Sides :
        LET order == Order(sym, q, pr, side, "")
        IN  PortfolioCall("remove_position", order,
                          remove_position(cash, positions, order))

\* Position.update_stop on a Position the portfolio holds.
UpdateStop ==
    \E sym \in DOMAIN positions, new_stop \in OrderPrices :
        /\ nops < MaxOps
        /\ nops' = nops + 1
        /\ last' = [op |-> "update_stop", order |-> NoOrder, exc |-> "none",
                    cash |-> cash, positions |-> positions]
        /\ positions' = [positions EXCEPT ![sym] = update_stop(@, new_stop)]
        /\ UNCHANGED <<cash, nonneg, fn, args, res, engineVars>>

NextPortfolio == AddPosition \/ RemovePosition \/ UpdateStop

SpecPortfolio == InitPortfolio /\ [][NextPortfolio]_vars

---------------------------------------------------------------------------
(* Claims about the Portfolio (SpecPortfolio).                             *)

\* The Positions the portfolio holds for a symbol.
PositionsOf(sym) == {k \in DOMAIN positions : positions[k].symbol = sym}

\* C1: after any sequence of add_position (buy) and remove_position (sell)
\* calls with orders of non-negative quantity, the portfolio holds at most one
\* Position per symbol and no Position has a negative quantity.
C1_OnePositionNonNegative ==
    nonneg =>
        \A sym \in Symbols :
            /\ Cardinality(PositionsOf(sym)) <= 1
            /\ \A k \in PositionsOf(sym) : RGe(positions[k].quantity, Zero)

\* A sell of more than is held, after earlier calls, all of quantity >= 0.
C1_Witness ==
    /\ nonneg
    /\ nops >= 2
    /\ last.op = "remove_position" /\ last.exc = "none"
    /\ last.order.symbol \in DOMAIN last.positions
    /\ RGt(last.order.quantity, last.positions[last.order.symbol].quantity)
    /\ \E sym \in Symbols : PositionsOf(sym) # {}

---------------------------------------------------------------------------
(* app/signals/rules.py: the expression evaluator.                         *)
(*                                                                         *)
(* An expression is the tree ast.parse(text, mode="eval") builds; a node   *)
(* is a record whose k field is its class name.  A Python value is         *)
(* [t, v]: a number ("num"), a bool ("bool", v is 1 or 0, as bool is an    *)
(* int in Python), the float not-a-number ("nan") or None ("none").        *)

Num(r) == [t |-> "num", v |-> r]
Bool(b) == [t |-> "bool", v |-> IF b THEN One ELSE Zero]
PyNone == [t |-> "none", v |-> Zero]
PyNaN == [t |-> "nan", v |-> Zero]

\* bool(value): None and zero are false, not-a-number is true.
Truthy(value) == value.t = "nan" \/ (value.t # "none" /\ value.v # Zero)
IsNumber(value) == value.t \in {"num", "bool", "nan"}
IsNaN(value) == value.t = "nan"

EvRet(value) == [exc |-> "none", val |-> value]
EvRaise(e) == [exc |-> e, val |-> PyNone]

Constant(value) == [k |-> "Constant", value |-> value]
Name(id) == [k |-> "Name", id |-> id]
BoolOp(op, values) == [k |-> "BoolOp", op |-> op, values |-> values]
UnaryOp(op, operand) == [k |-> "UnaryOp", op |-> op, operand |-> operand]
BinOp(left, op, right) == [k |-> "BinOp", left |-> left, op |-> op, right |-> right]
Compare(left, ops, comparators) ==
    [k |-> "Compare", left |-> left, ops |-> ops, comparators |-> comparators]
Call(func, arguments, keywords) ==
    [k |-> "Call", func |-> func, args |-> arguments, keywords |-> keywords]
\* A node of a class SafeEval has no visit_ method for (Attribute, Subscript,
\* Lambda, IfExp, List, Tuple, ...), with its child nodes in field order.
Other(class, children) == [k |-> class, children |-> children]

ALLOWED_FUNCS == {"max", "min", "abs", "round"}
RECURSIVE IntPow(_, _)
IntPow(b, e) == IF e = 0 THEN One ELSE RMul(b, IntPow(b, e - 1))

\* left ** right for an integer exponent; any other exponent is outside the
\* model (the expression sets below hold none).
PyPow(l, r) ==
    IF r[2] # 1 THEN EvRaise("OutOfModel")
    ELSE IF r[1] >= 0 THEN EvRet(Num(IntPow(l, r[1])))
    ELSE IF l = Zero THEN EvRaise("ZeroDivisionError")
    ELSE EvRet(Num(RDiv(One, IntPow(l, -r[1]))))

\* left op right on two numbers, one of which may be not-a-number: the
\* result is not-a-number, but x ** 0 and 1 ** x are 1 and a division by a
\* zero still raises.
Arith(op, l, r) ==
    IF IsNaN(l) \/ IsNaN(r)
    THEN IF op = "Div" /\ ~IsNaN(r) /\ r.v = Zero THEN EvRaise("ZeroDivisionError")
         ELSE IF op = "Pow" /\ ((~IsNaN(r) /\ r.v = Zero) \/ (~IsNaN(l) /\ l.v = One))
         THEN EvRet(Num(One))
         ELSE EvRet(PyNaN)
    ELSE CASE op = "Add" -> EvRet(Num(RAdd(l.v, r.v)))
           [] op = "Sub" -> EvRet(Num(RSub(l.v, r.v)))
           [] op = "Mult" -> EvRet(Num(RMul(l.v, r.v)))
           [] op = "Div" -> IF r.v = Zero THEN EvRaise("ZeroDivisionError")
                            ELSE EvRet(Num(RDiv(l.v, r.v)))
           [] OTHER -> PyPow(l.v, r.v)

\* round(x): to the nearest integer, ties to the even one.
RoundHalfEven(x) ==
    LET f == x[1] \div x[2]
        twice == RMul(Int2R(2), RSub(x, Int2R(f)))
    IN  IF RLt(twice, One) THEN Int2R(f)
        ELSE IF RGt(twice, One) THEN Int2R(f + 1)
        ELSE IF f % 2 = 0 THEN Int2R(f) ELSE Int2R(f + 1)

\* max(*values) / min(*values) for two or more values: the first extreme one.
RECURSIVE PyExtreme(_, _, _)
PyExtreme(values, best, wantMax) ==
    IF values = <<>> THEN best
    ELSE LET h == Head(values)
             better == /\ ~IsNaN(h) /\ ~IsNaN(best)
                       /\ IF wantMax THEN RGt(h.v, best.v) ELSE RLt(h.v, best.v)
         IN  PyExtreme(Tail(values), IF better THEN h ELSE best, wantMax)

\* func(*args, **kwargs) for the four allowed builtins.  kwargs is the
\* sequence of [arg, value] pairs; the only keyword modelled as accepted is
\* key=None of max and min.
CallBuiltin(func_name, values, kwargs) ==
    LET n == Len(values)
        allNumbers == \A i \in 1..n : IsNumber(values[i])
        keyNone == \A i \in 1..Len(kwargs) :
                      kwargs[i].arg = "key" /\ kwargs[i].value = PyNone
    IN  IF func_name \in {"max", "min"}
        THEN IF n < 2 \/ ~allNumbers \/ ~keyNone THEN EvRaise("TypeError")
             ELSE EvRet(PyExtreme(Tail(values), Head(values), func_name = "max"))
        ELSE IF func_name = "abs"
        THEN IF n # 1 \/ ~allNumbers \/ kwargs # <<>> THEN EvRaise("TypeError")
             ELSE IF IsNaN(values[1]) THEN EvRet(PyNaN)
             ELSE EvRet(Num(RAbs(values[1].v)))
        ELSE \* round
             IF n # 1 \/ ~allNumbers \/ kwargs # <<>> THEN EvRaise("TypeError")
             ELSE IF IsNaN(values[1]) THEN EvRaise("ValueError")
             ELSE EvRet(Num(RoundHalfEven(values[1].v)))

\* One comparison of visit_Compare; an ordering of None raises TypeError,
\* and not-a-number is unequal to and unordered with everything.
CompareOp(op, l, r) ==
    IF op \in {"Eq", "NotEq"}
    THEN LET same == IF IsNaN(l) \/ IsNaN(r) THEN FALSE
                     ELSE IF IsNumber(l) /\ IsNumber(r) THEN l.v = r.v
                     ELSE l.t = r.t
         IN  EvRet(Bool(IF op = "Eq" THEN same ELSE ~same))
    ELSE IF ~(IsNumber(l) /\ IsNumber(r)) THEN EvRaise("TypeError")
    ELSE IF IsNaN(l) \/ IsNaN(r) THEN EvRet(Bool(FALSE))
    ELSE EvRet(Bool(CASE op = "Gt" -> RGt(l.v, r.v)
                      [] op = "GtE" -> RGe(l.v, r.v)
                      [] op = "Lt" -> RLt(l.v, r.v)
                      [] OTHER -> RLe(l.v, r.v)))

SupportedCompare == {"Gt", "GtE", "Lt", "LtE", "Eq", "NotEq"}

RECURSIVE visit(_, _), visit_all(_, _), visit_keywords(_, _), compare_chain(_, _, _, _, _)

\* [self.visit(n) for n in nodes]: the values, or the first exception.
visit_all(nodes, context) ==
    IF nodes = <<>> THEN [exc |-> "none", vals |-> <<>>]
    ELSE LET h == visit(Head(nodes), context)
         IN  IF h.exc # "none" THEN [exc |-> h.exc, vals |-> <<>>]
             ELSE LET r == visit_all(Tail(nodes), context)
                  IN  IF r.exc # "none" THEN r
                      ELSE [exc |-> "none", vals |-> <<h.val>> \o r.vals]

\* {kw.arg: self.visit(kw.value) for kw in node.keywords}
visit_keywords(keywords, context) ==
    IF keywords = <<>> THEN [exc |-> "none", vals |-> <<>>]
    ELSE LET h == visit(Head(keywords).value, context)
         IN  IF h.exc # "none" THEN [exc |-> h.exc, vals |-> <<>>]
             ELSE LET r == visit_keywords(Tail(keywords), context)
                  IN  IF r.exc # "none" THEN r
                      ELSE [exc |-> "none",
                            vals |-> <<[arg |-> Head(keywords).arg, value |-> h.val]>>
                                        \o r.vals]

\* The loop of visit_Compare: each comparator is visited, then compared
\* unless result is already False (result and (...) short-circuits).
compare_chain(left, ops, comparators, result, context) ==
    IF ops = <<>> \/ comparators = <<>> THEN EvRet(Bool(result))
    ELSE LET r == visit(Head(comparators), context)
         IN  IF r.exc # "none" THEN r
             ELSE IF Head(ops) \notin SupportedCompare THEN EvRaise("ValueError")
             ELSE LET c == IF result THEN CompareOp(Head(ops), left, r.val)
                           ELSE EvRet(Bool(FALSE))
                  IN  IF c.exc # "none" THEN c
                      ELSE compare_chain(r.val, Tail(ops), Tail(comparators),
                                         Truthy(c.val), context)

\* visit_Name that looks the identifier up with context.get (None if absent).
visit_Name_Get(node, context) ==
    IF node.id \notin DOMAIN context THEN EvRet(PyNone)
    ELSE EvRet(context[node.id])

\* SafeEval.visit_Name
visit_Name(node, context) ==
    IF node.id \notin DOMAIN context THEN EvRaise("NameError")
    ELSE EvRet(context[node.id])

\* SafeEval.visit: dispatch on the node's class name.
visit(node, context) ==
    CASE node.k = "Name" -> visit_Name(node, context)
      [] node.k = "Constant" -> EvRet(node.value)
      [] node.k = "BoolOp" ->
            LET r == visit_all(node.values, context)
            IN  IF r.exc # "none" THEN EvRaise(r.exc)
                ELSE IF node.op = "And"
                THEN EvRet(Bool(\A i \in 1..Len(r.vals) : Truthy(r.vals[i])))
                ELSE IF node.op = "Or"
                THEN EvRet(Bool(\E i \in 1..Len(r.vals) : Truthy(r.vals[i])))
                ELSE EvRaise("ValueError")
      [] node.k = "UnaryOp" ->
            LET r == visit(node.operand, context)
            IN  IF r.exc # "none" THEN r
                ELSE IF node.op = "Not" THEN EvRet(Bool(~Truthy(r.val)))
                ELSE IF node.op = "USub"
                THEN IF IsNaN(r.val) THEN r
                     ELSE IF IsNumber(r.val) THEN EvRet(Num(RSub(Zero, r.val.v)))
                     ELSE EvRaise("TypeError")
                ELSE IF node.op = "UAdd"
                THEN IF IsNaN(r.val) THEN r
                     ELSE IF IsNumber(r.val) THEN EvRet(Num(r.val.v))
                     ELSE EvRaise("TypeError")
                ELSE EvRaise("ValueError")
      [] node.k = "BinOp" ->
            LET l == visit(node.left, context)
            IN  IF l.exc # "none" THEN l
                ELSE LET r == visit(node.right, context)
                     IN  IF r.exc # "none" THEN r
                         ELSE IF node.op \notin {"Add", "Sub", "Mult", "Div", "Pow"}
                         THEN EvRaise("ValueError")
                         ELSE IF ~(IsNumber(l.val) /\ IsNumber(r.val))
                         THEN EvRaise("TypeError")
                         ELSE Arith(node.op, l.val, r.val)
      [] node.k = "Compare" ->
            LET l == visit(node.left, context)
            IN  IF l.exc # "none" THEN l
                ELSE compare_chain(l.val, node.ops, node.comparators, TRUE, context)
      [] node.k = "Call" ->
            IF node.func.k # "Name" THEN EvRaise("ValueError")
            ELSE IF node.func.id \notin ALLOWED_FUNCS THEN EvRaise("ValueError")
            ELSE LET a == visit_all(node.args, context)
                 IN  IF a.exc # "none" THEN EvRaise(a.exc)
                     ELSE LET kw == visit_keywords(node.keywords, context)
                          IN  IF kw.exc # "none" THEN EvRaise(kw.exc)
                              ELSE CallBuiltin(node.func.id, a.vals, kw.vals)
      [] OTHER ->
            \* ast.NodeVisitor.generic_visit: visit the children, return None
            LET r == visit_all(node.children, context)
            IN  IF r.exc # "none" THEN EvRaise(r.exc) ELSE EvRet(PyNone)

\* evaluate_expression on the parsed tree (visit_Expression visits the body).
evaluate_expression(tree, context) == visit(tree, context)

---------------------------------------------------------------------------
(* app/signals/rules.py: evaluate_rules, and the rows it is given by       *)
(* app/signals/pipeline.py.                                                *)

\* A float of a feature row: a rational, or not-a-number.
NaN == <<1, 0>>
ToValue(x) == IF x = NaN THEN PyNaN ELSE Num(x)

\* A rule of RulesConfig: its text, whether the text starts with
\* "trailing_stop", and the tree ast.parse builds from the text that
\* evaluate_expression is given (for a trailing_stop rule: from the text
\* without the prefix and the surrounding parentheses).
Rule(text, trailing, tree) == [text |-> text, trailing |-> trailing, tree |-> tree]

\* PriceBar (the timestamp is the tick the bar belongs to).
PriceBar(open, high, low, close, volume) ==
    [open |-> open, high |-> high, low |-> low, close |-> close, volume |-> volume]

\* generate_signals: latest = {"open": bar.open, ..., "volume": bar.volume}
Latest(bar) ==
    [f \in {"open", "high", "low", "close", "volume"} |->
        CASE f = "open" -> bar.open
          [] f = "high" -> bar.high
          [] f = "low" -> bar.low
          [] f = "close" -> bar.close
          [] OTHER -> bar.volume]

\* context = {**features, **latest}: latest is written last.
RuleContext(latest, features) ==
    [id \in DOMAIN features \cup DOMAIN latest |->
        IF id \in DOMAIN latest THEN ToValue(latest[id]) ELSE ToValue(features[id])]

RuleOutcome(exc, entry, exit_reasons, trailing_stop) ==
    [exc |-> exc, entry |-> entry, exit_reasons |-> exit_reasons,
     trailing_stop |-> trailing_stop]

\* The loop of evaluate_rules over rules.get("exit", []), from the state
\* (exit_reasons, trailing_stop_value) it has built so far.
RECURSIVE exit_loop(_, _, _, _, _)
exit_loop(exit_rules, context, entry_result, exit_reasons, trailing_stop_value) ==
    IF exit_rules = <<>>
    THEN RuleOutcome("none", entry_result, exit_reasons, trailing_stop_value)
    ELSE LET rule == Head(exit_rules)
             r == evaluate_expression(rule.tree, context)
         IN  IF r.exc # "none" THEN RuleOutcome(r.exc, FALSE, <<>>, NoneVal)
             ELSE IF rule.trailing
             THEN \* float(...) of the value
                  IF ~IsNumber(r.val) THEN RuleOutcome("TypeError", FALSE, <<>>, NoneVal)
                  ELSE exit_loop(Tail(exit_rules), context, entry_result, exit_reasons,
                                 IF IsNaN(r.val) THEN NaN ELSE r.val.v)
             ELSE exit_loop(Tail(exit_rules), context, entry_result,
                            IF Truthy(r.val) THEN Append(exit_reasons, rule.text)
                            ELSE exit_reasons,
                            trailing_stop_value)

\* evaluate_rules that stops collecting exit reasons at the first one.
evaluate_rules_FirstReason(rules, latest, features) ==
    LET context == RuleContext(latest, features)
        e == evaluate_expression(rules.entry.tree, context)
        out == exit_loop(rules.exit, context, Truthy(e.val), <<>>, NoneVal)
    IN  IF e.exc # "none" THEN RuleOutcome(e.exc, FALSE, <<>>, NoneVal)
        ELSE IF Len(out.exit_reasons) <= 1 THEN out
        ELSE [out EXCEPT !.exit_reasons = <<out.exit_reasons[1]>>]

\* evaluate_rules that answers an expression that raises with no signal.
evaluate_rules_Absorbing(rules, latest, features) ==
    LET context == RuleContext(latest, features)
        e == evaluate_expression(rules.entry.tree, context)
        out == exit_loop(rules.exit, context, Truthy(e.val), <<>>, NoneVal)
    IN  IF e.exc # "none" \/ out.exc # "none" THEN RuleOutcome("none", FALSE, <<>>, NoneVal)
        ELSE out

\* evaluate_rules(rules, latest, features)
evaluate_rules(rules, latest, features) ==
    LET context == RuleContext(latest, features)
        e == evaluate_expression(rules.entry.tree, context)
    IN  IF e.exc # "none" THEN RuleOutcome(e.exc, FALSE, <<>>, NoneVal)
        ELSE exit_loop(rules.exit, context, Truthy(e.val), <<>>, NoneVal)

---------------------------------------------------------------------------
(* evaluate_expression called once on a tree and a context (SpecEval).     *)

MaxDepth == 2

Leaves ==
    {Constant(Num(Zero)), Constant(Num(One)), Constant(Bool(TRUE)),
     Constant(PyNone), Name("rsi"), Name("macd")}

UnaryOps == {"Not", "USub", "UAdd", "Invert"}
BinOps == {"Add", "Sub", "Mult", "Div", "Pow", "Mod"}
CompareOps == {"Gt", "GtE", "Lt", "LtE", "Eq", "NotEq", "In"}
FuncNodes ==
    {Name(f) : f \in ALLOWED_FUNCS \cup {"eval", "open"}}
        \cup {Other("Attribute", <<Name("rsi")>>)}
NoArguments == Other("arguments", <<>>)

\* Every construct over the leaves.
Depth1 ==
    {UnaryOp(op, l) : op \in UnaryOps, l \in Leaves}
    \cup {BinOp(l, op, r) : l \in Leaves, op \in BinOps, r \in Leaves}
    \cup {BoolOp(op, <<l, r>>) : op \in {"And", "Or"}, l \in Leaves, r \in Leaves}
    \cup {Compare(l, <<op>>, <<r>>) : l \in Leaves, op \in CompareOps, r \in Leaves}
    \cup {Compare(l, <<"Lt", "Gt">>, <<m, r>>) : l \in Leaves, m \in Leaves, r \in Leaves}
    \cup {Call(f, <<l>>, <<>>) : f \in FuncNodes, l \in Leaves}
    \cup {Call(f, <<l, r>>, <<>>) : f \in FuncNodes, l \in Leaves, r \in Leaves}
    \cup {Call(Name("max"), <<l, r>>, <<[arg |-> "key", value |-> kv]>>) :
              l \in Leaves, r \in Leaves, kv \in {Constant(PyNone), Name("macd")}}
    \cup {Other("Attribute", <<l>>) : l \in Leaves}
    \cup {Other("Subscript", <<l, r>>) : l \in Leaves, r \in Leaves}
    \cup {Other("Lambda", <<NoArguments, l>>) : l \in Leaves}
    \cup {Other("IfExp", <<l, m, r>>) :
              l \in Leaves, m \in {Constant(Num(One)), Name("macd")},
              r \in {Constant(Num(Zero)), Name("rsi")}}
    \cup {Other("List", <<l, r>>) : l \in Leaves, r \in Leaves}
    \cup {Other("Tuple", <<l, r>>) : l \in Leaves, r \in Leaves}

\* One more level around the trees of a set.
Wrap(S) ==
    {UnaryOp(op, e) : op \in {"Not", "USub"}, e \in S}
    \cup {BoolOp("And", <<Name("rsi"), e>>) : e \in S}
    \cup {Compare(e, <<"Gt">>, <<Constant(Num(Zero))>>) : e \in S}
    \cup {Call(Name("abs"), <<e>>, <<>>) : e \in S}
    \cup {Call(Name("eval"), <<e>>, <<>>) : e \in S}
    \cup {Other("Attribute", <<e>>) : e \in S}
    \cup {Other("List", <<e>>) : e \in S}

RECURSIVE TreesAt(_)
TreesAt(d) == IF d <= 1 THEN Depth1 ELSE Wrap(TreesAt(d - 1))
Trees == Leaves \cup UNION {TreesAt(d) : d \in 1..MaxDepth}

Contexts ==
    {[id \in {"rsi"} |-> Num(One)],
     [id \in {"rsi"} |-> Num(Zero)],
     [id \in {"rsi"} |-> PyNaN],
     [id \in {"rsi", "macd"} |-> IF id = "rsi" THEN Num(Int2R(2)) ELSE Num(Int2R(-1))]}

InitEval ==
    /\ PortfolioIdle /\ EngineIdle
    /\ fn = "evaluate_expression"
    /\ args \in [expression : Trees, context : Contexts]
    /\ res = EvRet(PyNone)

CallEvaluate ==
    /\ fn = "evaluate_expression"
    /\ res' = evaluate_expression(args.expression, args.context)
    /\ fn' = "returned:evaluate_expression"
    /\ UNCHANGED <<args, portfolioVars, engineVars>>

NextEval == CallEvaluate

SpecEval == InitEval /\ [][NextEval]_vars

---------------------------------------------------------------------------
(* Claims about the expression evaluator (SpecEval).                       *)

\* The nodes below a node; a Call's func is one unless it is a plain Name
\* (a function name is not an identifier reference).
Parts(node) ==
    CASE node.k \in {"Name", "Constant"} -> <<>>
      [] node.k = "BoolOp" -> node.values
      [] node.k = "UnaryOp" -> <<node.operand>>
      [] node.k = "BinOp" -> <<node.left, node.right>>
      [] node.k = "Compare" -> <<node.left>> \o node.comparators
      [] node.k = "Call" ->
            (IF node.func.k = "Name" THEN <<>> ELSE <<node.func>>)
                \o node.args
                \o [i \in 1..Len(node.keywords) |-> node.keywords[i].value]
      [] OTHER -> node.children

RECURSIVE Nodes(_)
Nodes(node) ==
    {node} \cup UNION {Nodes(Parts(node)[i]) : i \in 1..Len(Parts(node))}

GrammarClasses ==
    {"Name", "Constant", "BoolOp", "UnaryOp", "BinOp", "Compare", "Call"}

\* The tree holds a construct outside the grammar: attribute access,
\* subscripting, a lambda, a conditional expression, a list or tuple literal.
HasDisallowedConstruct(tree) ==
    \E n \in Nodes(tree) : n.k \notin GrammarClasses

RefsUnknownIdentifier(tree, context) ==
    \E n \in Nodes(tree) : n.k = "Name" /\ n.id \notin DOMAIN context

CallsDisallowedFunction(tree) ==
    \E n \in Nodes(tree) :
        n.k = "Call" /\ n.func.k = "Name" /\ n.func.id \notin ALLOWED_FUNCS

EvalReturned == fn = "returned:evaluate_expression"

\* C6: evaluate_expression raises, and never returns a value, for any
\* expression that holds a construct outside the restricted grammar.
C6_DisallowedConstructRaises ==
    (EvalReturned /\ HasDisallowedConstruct(args.expression)) => res.exc # "none"

\* C7: evaluate_expression raises instead of returning a value whenever the
\* expression references an identifier that is not a key of the context or
\* calls a function whose name is not in {max, min, abs, round}.
C7_UnknownNameOrFunctionRaises ==
    (EvalReturned
        /\ (RefsUnknownIdentifier(args.expression, args.context)
               \/ CallsDisallowedFunction(args.expression)))
        => res.exc # "none"

\* An unknown identifier met below a construct the evaluator has no method
\* for, and a disallowed call whose arguments are all known.
C7_Witness ==
    /\ EvalReturned
    /\ \/ /\ RefsUnknownIdentifier(args.expression, args.context)
          /\ ~CallsDisallowedFunction(args.expression)
          /\ args.expression.k = "List"
          /\ res.exc = "NameError"
       \/ /\ CallsDisallowedFunction(args.expression)
          /\ ~RefsUnknownIdentifier(args.expression, args.context)
          /\ res.exc = "ValueError"

---------------------------------------------------------------------------
(* The pure functions, called once on inputs drawn from bounded sets.      *)

MaxNum == 2
Dens == {1, 2}
Nums == {Rat(n, d) : n \in (-MaxNum)..MaxNum, d \in Dens}
NonNegNums == {x \in Nums : RGe(x, Zero)}
\* (max_positions, current_positions) pairs: limit off, below, at and above.
PositionCounts == {<<0, 0>>, <<0, 1>>, <<1, 0>>, <<1, 1>>, <<2, 1>>, <<1, 2>>}

VolTargetArgs ==
    [equity : Nums, price : Nums, atr : Nums,
     risk_per_trade : Nums, atr_multiple : Nums]

LimitArgs ==
    [desired_qty : Nums, price : NonNegNums, equity : Nums,
     max_gross_exposure : NonNegNums, max_position_pct : NonNegNums,
     gross_exposure : NonNegNums, counts : PositionCounts]

InitRisk ==
    /\ PortfolioIdle /\ EngineIdle
    /\ res = Ret(Zero)
    /\ \/ fn = "position_size_vol_target" /\ args \in VolTargetArgs
       \/ fn = "apply_position_limits" /\ args \in LimitArgs

CallVolTarget ==
    /\ fn = "position_size_vol_target"
    /\ res' = Ret(position_size_vol_target(args.equity, args.price, args.atr,
                                           args.risk_per_trade, args.atr_multiple))
    /\ fn' = "returned:position_size_vol_target"
    /\ UNCHANGED <<args, portfolioVars, engineVars>>

CallApplyLimits ==
    /\ fn = "apply_position_limits"
    /\ res' = apply_position_limits(
                 args.desired_qty, args.price, args.equity,
                 [max_positions |-> args.counts[1],
                  max_gross_exposure |-> args.max_gross_exposure,
                  max_position_pct |-> args.max_position_pct],
                 args.counts[2], args.gross_exposure)
    /\ fn' = "returned:apply_position_limits"
    /\ UNCHANGED <<args, portfolioVars, engineVars>>

NextRisk == CallVolTarget \/ CallApplyLimits

SpecRisk == InitRisk /\ [][NextRisk]_vars

---------------------------------------------------------------------------
(* Claims about the risk helpers (SpecRisk).                               *)

LimitsReturned == fn = "returned:apply_position_limits"
VolTargetReturned == fn = "returned:position_size_vol_target"

\* The two caps of apply_position_limits on a returned quantity.
WithinCaps ==
    /\ res.exc = "none"
    /\ RGe(res.val, Zero)
    /\ RLe(RMul(res.val, args.price), RMul(args.max_position_pct, args.equity))
    /\ RGt(res.val, Zero) =>
          RLe(RAdd(args.gross_exposure,
                   RDiv(RMul(res.val, args.price), args.equity)),
              args.max_gross_exposure)

\* C5: for every desired quantity, price > 0 and equity > 0,
\* apply_position_limits returns q >= 0 with q*price <= max_position_pct*equity
\* and, when q > 0, gross_exposure + q*price/equity <= max_gross_exposure.
C5_LimitsWithinCaps ==
    (LimitsReturned /\ RGt(args.price, Zero) /\ RGt(args.equity, Zero))
        => WithinCaps

\* C10 as stated: for price > 0 and atr > 0 the result is
\* (equity*risk_per_trade)/(atr*atr_multiple) floored at zero (wherever that
\* quotient exists), and it is 0 whenever atr <= 0 or price <= 0.
C10_VolTargetExact_Original ==
    VolTargetReturned =>
        /\ (RGt(args.price, Zero) /\ RGt(args.atr, Zero)) =>
              (RMul(args.atr, args.atr_multiple) # Zero =>
                  res.val = RMax(RDiv(RMul(args.equity, args.risk_per_trade),
                                      RMul(args.atr, args.atr_multiple)), Zero))
        /\ (RLe(args.atr, Zero) \/ RLe(args.price, Zero)) => res.val = Zero

\* C10 (amended): for price > 0, atr > 0 and atr_multiple > 0 the result q is
\* exactly (equity*risk_per_trade)/(atr*atr_multiple) floored at zero, that is
\* q*(atr*atr_multiple) = equity*risk_per_trade when that is >= 0 and q = 0
\* otherwise; it is 0 whenever atr <= 0, price <= 0 or atr_multiple <= 0.
C10_VolTargetExact ==
    VolTargetReturned =>
        /\ (RGt(args.price, Zero) /\ RGt(args.atr, Zero) /\ RGt(args.atr_multiple, Zero)) =>
              IF RGe(RMul(args.equity, args.risk_per_trade), Zero)
              THEN RMul(res.val, RMul(args.atr, args.atr_multiple))
                      = RMul(args.equity, args.risk_per_trade)
              ELSE res.val = Zero
        /\ (RLe(args.atr, Zero) \/ RLe(args.price, Zero) \/ RLe(args.atr_multiple, Zero))
              => res.val = Zero

\* A call with positive price, ATR and multiple that returned a positive size
\* which is not the dollar risk over the ATR alone (the multiple matters).
C10_Witness ==
    /\ VolTargetReturned
    /\ RGt(args.price, Zero) /\ RGt(args.atr, Zero) /\ RGt(args.atr_multiple, Zero)
    /\ args.atr_multiple # One
    /\ RGt(res.val, Zero)

---------------------------------------------------------------------------
(* app/backtest/metrics.py and app/backtest/engine.py: BacktestEngine.run  *)

\* TradeRecord as the engine builds it; return_pct divides by the entry
\* price (the callers test entry_price = Zero first: ZeroDivisionError).
TradeRecord(symbol, entry_date, exit_date, entry_price, exit_price, quantity) ==
    [symbol |-> symbol, entry_date |-> entry_date, exit_date |-> exit_date,
     entry_price |-> entry_price, exit_price |-> exit_price, quantity |-> quantity,
     pnl |-> RMul(RSub(exit_price, entry_price), quantity),
     return_pct |-> RSub(RDiv(exit_price, entry_price), One),
     holding_period |-> exit_date - entry_date]

\* compute_metrics that accepts an equity curve of one observation.
compute_metrics_OnePoint(equity_curve, trade_list) ==
    IF Len(equity_curve) < 1 THEN Raise("ValueError")
    ELSE LET first == equity_curve[1][2]
             final == equity_curve[Len(equity_curve)][2]
         IN  IF first = Zero THEN Raise("ZeroDivisionError")
             ELSE Ret(RSub(RDiv(final, first), One))

\* compute_metrics, as far as it can raise: the length test, then
\* total_return = values[-1] / values[0] - 1; every later division is guarded.
compute_metrics(equity_curve, trade_list) ==
    IF Len(equity_curve) < 2 THEN Raise("ValueError")
    ELSE LET first == equity_curve[1][2]
             final == equity_curve[Len(equity_curve)][2]
         IN  IF first = Zero THEN Raise("ZeroDivisionError")
             ELSE Ret(RSub(RDiv(final, first), One))

\* sizing.params.get(key, default)
ParamGet(params, key, default) == IF key \in DOMAIN params THEN params[key] ELSE default

\* Portfolio.market_value: cash plus quantity * price over the positions
\* whose symbol has a price.
RECURSIVE HeldValue(_, _, _)
HeldValue(p, prices, syms) ==
    IF syms = {} THEN Zero
    ELSE LET s == CHOOSE x \in syms : TRUE
         IN  RAdd(IF s \in DOMAIN prices THEN RMul(p[s].quantity, prices[s]) ELSE Zero,
                  HeldValue(p, prices, syms \ {s}))

\* Portfolio.market_value without the cash.
market_value_NoCash(c, p, prices) == HeldValue(p, prices, DOMAIN p)

\* Portfolio.market_value with the average price of a position standing for
\* the price its symbol does not have.
market_value_CarryPrice(c, p, prices) ==
    LET carried == [s \in DOMAIN p \cup DOMAIN prices |->
                       IF s \in DOMAIN prices THEN prices[s] ELSE p[s].avg_price]
    IN  RAdd(c, HeldValue(p, carried, DOMAIN p))

\* Portfolio.market_value
market_value(c, p, prices) == RAdd(c, HeldValue(p, prices, DOMAIN p))

\* sum(abs(pos.quantity * price_snapshot.get(sym, price)) ...) / equity, or 0.0
RECURSIVE AbsHeldValue(_, _, _, _)
AbsHeldValue(p, prices, price, syms) ==
    IF syms = {} THEN Zero
    ELSE LET s == CHOOSE x \in syms : TRUE
             px == IF s \in DOMAIN prices THEN prices[s] ELSE price
         IN  RAdd(RAbs(RMul(p[s].quantity, px)),
                  AbsHeldValue(p, prices, price, syms \ {s}))
gross_exposure_of(p, prices, price, equity) ==
    IF RGt(equity, Zero) THEN RDiv(AbsHeldValue(p, prices, price, DOMAIN p), equity)
    ELSE Zero

\* ",".join(exit_reasons)
RECURSIVE JoinReasons(_)
JoinReasons(reasons) ==
    IF Len(reasons) = 1 THEN reasons[1]
    ELSE reasons[1] \o "," \o JoinReasons(Tail(reasons))

\* The first of atr14, atr, atr_14 the row holds as a number; None if none.
RECURSIVE select_atr(_, _)
select_atr(indicator_row, keys) ==
    IF keys = <<>> THEN NoneVal
    ELSE IF Head(keys) \in DOMAIN indicator_row /\ indicator_row[Head(keys)] # NaN
    THEN indicator_row[Head(keys)]
    ELSE select_atr(indicator_row, Tail(keys))
ATR_KEYS == <<"atr14", "atr", "atr_14">>

\* The quantity the sizing asks for, before the limits.
desired_quantity(sizing, equity, price, atr_value) ==
    IF sizing.type = "vol_target"
    THEN position_size_vol_target(equity, price, atr_value,
                                  ParamGet(sizing.params, "risk_per_trade", Rat(1, 100)),
                                  ParamGet(sizing.params, "atr_multiple", Int2R(2)))
    ELSE IF sizing.type = "fixed" THEN ParamGet(sizing.params, "shares", Zero)
    ELSE Zero

\* What run holds between two steps of its loops, and the result of a step:
\* the exception raised (or "none"), the branch taken, and what run holds.
Book(c, p, o, tr, op) ==
    [cash |-> c, positions |-> p, orders |-> o, trades |-> tr, open_positions |-> op]
StepResult(e, action, book) == [exc |-> e, action |-> action, book |-> book]

\* A closing that appends its sell order twice.
close_position_Twice(book, symbol, qty_held, price, reason, action, timestamp) ==
    LET order == Order(symbol, qty_held, price, "sell", reason)
        out == remove_position(book.cash, book.positions, order)
        entry_info == book.open_positions[symbol]
        sold == [book EXCEPT !.cash = out.cash, !.positions = out.positions,
                             !.orders = @ \o <<order, order>>]
    IN  IF entry_info.entry_price = Zero THEN StepResult("ZeroDivisionError", "raise", sold)
        ELSE StepResult("none", action,
                 [sold EXCEPT
                     !.trades = Append(@, TradeRecord(symbol, entry_info.entry_date,
                                              timestamp, entry_info.entry_price,
                                              price, qty_held)),
                     !.open_positions = DictDel(@, symbol)])

\* The closing of a position, by its stop or by an exit rule: the sell
\* order, remove_position, orders.append, the TradeRecord (whose return_pct
\* divides by the entry price), del open_positions[symbol].
close_position(book, symbol, qty_held, price, reason, action, timestamp) ==
    LET order == Order(symbol, qty_held, price, "sell", reason)
        out == remove_position(book.cash, book.positions, order)
        entry_info == book.open_positions[symbol]
        sold == [book EXCEPT !.cash = out.cash, !.positions = out.positions,
                             !.orders = Append(@, order)]
    IN  IF entry_info.entry_price = Zero THEN StepResult("ZeroDivisionError", "raise", sold)
        ELSE StepResult("none", action,
                 [sold EXCEPT
                     !.trades = Append(@, TradeRecord(symbol, entry_info.entry_date,
                                              timestamp, entry_info.entry_price,
                                              price, qty_held)),
                     !.open_positions = DictDel(@, symbol)])

\* The entry test that forgets the position held.
skip_entry_EntryOnly(entry, has_position) == ~entry

\* if not signal_row.get("entry") or position: continue
skip_entry(entry, has_position) == ~entry \/ has_position

\* The entry of a symbol: ATR lookup, sizing, limits, the buy order, the stop.
try_entry(book, config, symbol, bar, indicator_row, equity, prices, timestamp) ==
    LET price == bar.close
        atr_value == select_atr(indicator_row, ATR_KEYS)
    IN  IF atr_value = NoneVal \/ RLe(atr_value, Zero)
        THEN StepResult("none", "no_atr", book)
        ELSE
          LET qty == desired_quantity(config.sizing, equity, price, atr_value)
              gross_exposure == gross_exposure_of(book.positions, prices, price, equity)
              limited == apply_position_limits(qty, price, equity, config.limits,
                                               Cardinality(DOMAIN book.positions),
                                               gross_exposure)
          IN  IF limited.exc # "none" THEN StepResult(limited.exc, "raise", book)
              ELSE IF RLe(limited.val, Zero) THEN StepResult("none", "no_qty", book)
              ELSE
                LET order == Order(symbol, limited.val, price, "buy", "entry")
                    out == add_position(book.cash, book.positions, order)
                    stop_multiple == ParamGet(config.sizing.params, "atr_multiple", Int2R(2))
                    stop_price == stop_from_atr(price, atr_value, stop_multiple, "long")
                    \* if position and stop_price: None and 0.0 are false
                    with_stop ==
                        IF symbol \in DOMAIN out.positions
                           /\ stop_price # NoneVal /\ stop_price # Zero
                        THEN [out.positions EXCEPT ![symbol].stop_price = stop_price]
                        ELSE out.positions
                IN  StepResult("none", "buy",
                        [book EXCEPT
                            !.cash = out.cash,
                            !.positions = with_stop,
                            !.orders = Append(@, order),
                            !.open_positions =
                                DictSet(@, symbol, [entry_date |-> timestamp,
                                                    entry_price |-> price])])

\* A test of the indicator row that finds no not-a-number in any row.
any_nan_Never(indicator_row) == FALSE

\* any(isinstance(value, float) and isnan(value) for value in indicator_row.values())
any_nan(indicator_row) == \E f \in DOMAIN indicator_row : indicator_row[f] = NaN

\* The body of the loop over the symbols, for a symbol that has a bar.
process_symbol(book, config, symbol, bar, indicator_row, signal_row, equity, prices, timestamp) ==
    IF any_nan(indicator_row)
    THEN StepResult("none", "nan", book)
    ELSE
      LET has_position == symbol \in DOMAIN book.positions
          position == book.positions[symbol]
          hard_stop == /\ has_position
                       /\ position.stop_price # NoneVal
                       /\ RLe(bar.low, position.stop_price)
          trailing_stop == signal_row.trailing_stop
          trailed ==
              IF has_position /\ trailing_stop # NoneVal /\ trailing_stop # NaN
              THEN [book EXCEPT !.positions[symbol] = update_stop(position, trailing_stop)]
              ELSE book
      IN  IF hard_stop
          THEN close_position(book, symbol, position.quantity, position.stop_price,
                              "stop", "stop", timestamp)
          ELSE IF has_position /\ signal_row.exit_reasons # <<>>
          THEN close_position(trailed, symbol, position.quantity, bar.close,
                              JoinReasons(signal_row.exit_reasons), "exit", timestamp)
          ELSE IF skip_entry(signal_row.entry, has_position)
          THEN StepResult("none", IF has_position THEN "hold" ELSE "no_entry", trailed)
          ELSE try_entry(trailed, config, symbol, bar, indicator_row, equity, prices,
                         timestamp)

---------------------------------------------------------------------------
(* The runs (Spec): one run of BacktestEngine.run on a strategy and on     *)
(* price data.  The data is drawn as the run reads it: the bars of a       *)
(* timestamp when the loop over all_dates reaches it, the low and the      *)
(* indicator row of a bar when the loop over the symbols reaches it; the   *)
(* signal row is evaluate_rules on that bar and row, as generate_signals   *)
(* computed it before the loops.                                           *)

MaxBars == 3

Closes == {Zero, One, Int2R(2)}
\* The low of a bar: its close, or 0 or 1 below it.
Lows(close) == {low \in {Zero, One, close} : RLe(low, close)}
\* The values an indicator takes on a bar.
FeatureValues(f) ==
    IF f = "sma" THEN {Rat(1, 2), Rat(3, 2)} ELSE {NaN, Zero, One}

TrueRule == Rule("True", FALSE, Constant(Bool(TRUE)))
AboveSma == Rule("close > sma", FALSE, Compare(Name("close"), <<"Gt">>, <<Name("sma")>>))
BelowSma == Rule("close < sma", FALSE, Compare(Name("close"), <<"Lt">>, <<Name("sma")>>))
TrailAtr == Rule("trailing_stop(close - atr14)", TRUE,
                 BinOp(Name("close"), "Sub", Name("atr14")))
TrailTwoAtr == Rule("trailing_stop(close - 2 * atr14)", TRUE,
                    BinOp(Name("close"), "Sub",
                          BinOp(Constant(Num(Int2R(2))), "Mult", Name("atr14"))))
MacdRule == Rule("macd > 0", FALSE,
                 Compare(Name("macd"), <<"Gt">>, <<Constant(Num(Zero))>>))
CloseOverAtr == Rule("close / atr14 > 1", FALSE,
                     Compare(BinOp(Name("close"), "Div", Name("atr14")), <<"Gt">>,
                             <<Constant(Num(One))>>))

RiskParameters(max_positions, max_gross_exposure, max_position_pct) ==
    [max_positions |-> max_positions, max_gross_exposure |-> max_gross_exposure,
     max_position_pct |-> max_position_pct]

Config(name, symbols, initial_equity, features, entry, exit, sizing_type, params, limits) ==
    [name |-> name, symbols |-> symbols, initial_equity |-> initial_equity,
     features |-> features, rules |-> [entry |-> entry, exit |-> exit],
     sizing |-> [type |-> sizing_type, params |-> params], limits |-> limits]

Shares10 == [key \in {"shares"} |-> Int2R(10)]

Configs ==
    { \* two symbols, fixed shares, the default ATR multiple, a trailing stop
      Config("two_fixed", <<"AAA", "BBB">>, Int2R(100), {"atr14"},
             TrueRule, <<TrailAtr>>, "fixed", Shares10,
             RiskParameters(2, Rat(1, 20), Rat(1, 10))),
      \* one symbol, always-true entry, fixed shares = 10, a rule exit and a
      \* trailing stop
      Config("one_fixed", <<"AAA">>, Int2R(100), {"atr14", "sma"},
             TrueRule, <<BelowSma, TrailTwoAtr>>, "fixed",
             [key \in {"shares", "atr_multiple"} |->
                 IF key = "shares" THEN Int2R(10) ELSE One],
             RiskParameters(2, One, Rat(1, 10))),
      \* one symbol, volatility-target sizing
      Config("vol_target", <<"AAA">>, Int2R(10), {"atr14", "sma"},
             AboveSma, <<BelowSma>>, "vol_target",
             [key \in {"risk_per_trade", "atr_multiple"} |->
                 IF key = "risk_per_trade" THEN Rat(1, 10) ELSE One],
             RiskParameters(1, One, One)),
      \* an initial equity of 0
      Config("zero_equity", <<"AAA">>, Zero, {"atr14"},
             TrueRule, <<>>, "fixed", Shares10, RiskParameters(1, One, One)),
      \* no ATR among the indicators
      Config("no_atr", <<"AAA">>, Int2R(100), {"sma"},
             TrueRule, <<BelowSma>>, "fixed", Shares10, RiskParameters(1, One, One)),
      \* a sizing type that is neither vol_target nor fixed
      Config("other_sizing", <<"AAA">>, Int2R(100), {"atr14"},
             TrueRule, <<>>, "percent", Shares10, RiskParameters(1, One, One)),
      \* an entry rule over an identifier no indicator provides
      Config("unknown_name", <<"AAA">>, Int2R(100), {"atr14"},
             MacdRule, <<>>, "fixed", Shares10, RiskParameters(1, One, One)),
      \* two symbols, the limits at 1: the first buy may take all the cash
      Config("two_full", <<"AAA", "BBB">>, Int2R(4), {"atr14"},
             TrueRule, <<>>, "fixed",
             [key \in {"shares", "atr_multiple"} |->
                 IF key = "shares" THEN Int2R(2) ELSE One],
             RiskParameters(2, One, One)),
      \* an entry rule that divides by an indicator
      Config("div_rule", <<"AAA">>, Int2R(100), {"atr14"},
             CloseOverAtr, <<>>, "fixed", Shares10, RiskParameters(1, One, One)),
      \* two indicators of the ATR family
      Config("two_atr", <<"AAA">>, Int2R(100), {"atr14", "atr"},
             TrueRule, <<>>, "fixed",
             [key \in {"shares", "atr_multiple"} |->
                 IF key = "shares" THEN Int2R(5) ELSE One],
             RiskParameters(1, One, One)) }

FeatureRows(config) ==
    {row \in [config.features -> UNION {FeatureValues(f) : f \in config.features}] :
        \A f \in config.features : row[f] \in FeatureValues(f)}

\* A bar of the data: open = high = close, volume 1.
Bar(close, low) == PriceBar(close, close, low, close, One)
Bars == {Bar(c, l) : c \in Closes, l \in {Zero, One, Int2R(2)}}

\* The signal row of a bar: evaluate_rules on its latest prices and features.
SignalRow(config, bar, indicator_row) ==
    evaluate_rules(config.rules, Latest(bar), indicator_row)

NoPosition == Position("", Zero, Zero)
NoBar == Bar(Zero, Zero)
NoSignal == RuleOutcome("none", FALSE, <<>>, NoneVal)
\* The latest step of the run: the bar, rows and position it was given, the
\* branch it took and the lengths of orders and trades before it.
Step(op, symbol, bar, indicator_row, signal_row, position, action, first_valid) ==
    [op |-> op, symbol |-> symbol, bar |-> bar, indicator_row |-> indicator_row,
     signal_row |-> signal_row, position |-> position, action |-> action,
     first_valid |-> first_valid, equity |-> equity_now,
     norders |-> Len(orders), ntrades |-> Len(trades)]
PlainStep(op) == Step(op, "", NoBar, EmptyDict, NoSignal, NoPosition, "", FALSE)

\* After BacktestEngine(...) is constructed, before run is called.
Init ==
    /\ HarnessIdle
    /\ cfg \in Configs
    /\ pc = "start"
    /\ cash = Zero /\ positions = EmptyDict /\ nops = 0 /\ nonneg = TRUE
    /\ tick = 0 /\ sym_idx = 0
    /\ price_snapshot = EmptyDict /\ equity_now = Zero /\ equity_history = <<>>
    /\ orders = <<>> /\ order_ts = <<>> /\ trades = <<>>
    /\ open_positions = EmptyDict /\ seen_valid = {} /\ raised = "none"
    /\ positive_prices = TRUE
    /\ last = [op |-> "init", symbol |-> "", bar |-> NoBar, indicator_row |-> EmptyDict,
               signal_row |-> NoSignal, position |-> NoPosition, action |-> "",
               first_valid |-> FALSE, equity |-> Zero, norders |-> 0, ntrades |-> 0]

\* The rows evaluate_rules raises on, and whether it returns on some row.
RaisingRows(config) ==
    {e \in {SignalRow(config, bar, row).exc : bar \in Bars, row \in FeatureRows(config)} :
        e # "none"}
SomeRowEvaluates(config) ==
    \E bar \in Bars, row \in FeatureRows(config) : SignalRow(config, bar, row).exc = "none"

\* Lines 51-80: the Portfolio, the indicator and signal maps (the rules
\* evaluate on every bar of the data), all_dates and open_positions.
Setup ==
    /\ pc = "start"
    /\ SomeRowEvaluates(cfg)
    /\ cash' = cfg.initial_equity
    /\ positions' = EmptyDict
    /\ pc' = "tick"
    /\ last' = PlainStep("setup")
    /\ UNCHANGED <<fn, args, res, nops, nonneg, cfg, tick, sym_idx, price_snapshot,
                   equity_now, equity_history, orders, order_ts, trades,
                   open_positions, seen_valid, positive_prices, raised>>

\* generate_signals raises on a bar of the data: run raises before its loops.
SetupRaises ==
    /\ pc = "start"
    /\ \E e \in RaisingRows(cfg) : raised' = e
    /\ cash' = cfg.initial_equity
    /\ positions' = EmptyDict
    /\ pc' = "raised"
    /\ last' = PlainStep("setup")
    /\ UNCHANGED <<fn, args, res, nops, nonneg, cfg, tick, sym_idx, price_snapshot,
                   equity_now, equity_history, orders, order_ts, trades,
                   open_positions, seen_valid, positive_prices>>

\* Lines 82-89: the next timestamp of all_dates, its price_snapshot and equity.
Tick ==
    /\ pc = "tick"
    /\ tick < MaxBars
    /\ \E present \in (SUBSET {cfg.symbols[n] : n \in 1..Len(cfg.symbols)}) \ {{}} :
       \E closes \in [present -> Closes] :
          LET value == market_value(cash, positions, closes)
          IN  /\ price_snapshot' = closes
              /\ equity_now' = value
              /\ equity_history' = Append(equity_history, <<tick + 1, value>>)
              /\ positive_prices' = (positive_prices
                                     /\ \A s \in present : RGt(closes[s], Zero))
    /\ tick' = tick + 1
    /\ sym_idx' = 1
    /\ pc' = "symbol"
    /\ last' = PlainStep("tick")
    /\ UNCHANGED <<fn, args, res, nops, nonneg, cfg, cash, positions, orders, order_ts,
                   trades, open_positions, seen_valid, raised>>

\* To the next symbol, or to the next timestamp after the last symbol.
NextSymbol ==
    /\ sym_idx' = sym_idx + 1
    /\ pc' = IF sym_idx = Len(cfg.symbols) THEN "tick" ELSE "symbol"

\* Lines 92-94: the symbol has no bar at this timestamp.
SkipSymbol ==
    /\ pc = "symbol"
    /\ cfg.symbols[sym_idx] \notin DOMAIN price_snapshot
    /\ NextSymbol
    /\ last' = Step("process", cfg.symbols[sym_idx], NoBar, EmptyDict, NoSignal,
                    NoPosition, "no_bar", FALSE)
    /\ UNCHANGED <<fn, args, res, nops, nonneg, cfg, tick, price_snapshot, equity_now,
                   equity_history, cash, positions, orders, order_ts, trades,
                   open_positions, seen_valid, positive_prices, raised>>

\* Lines 92-221: the body of the loop over the symbols on a bar.
ProcessSymbol ==
    /\ pc = "symbol"
    /\ cfg.symbols[sym_idx] \in DOMAIN price_snapshot
    /\ LET symbol == cfg.symbols[sym_idx]
           close == price_snapshot[symbol]
           book == Book(cash, positions, orders, trades, open_positions)
       IN  \E low \in Lows(close), indicator_row \in FeatureRows(cfg) :
           \E signal_row \in {SignalRow(cfg, Bar(close, low), indicator_row)} :
           \E r \in {process_symbol(book, cfg, symbol, Bar(close, low), indicator_row,
                                    signal_row, equity_now, price_snapshot, tick)} :
             /\ signal_row.exc = "none"
             /\ cash' = r.book.cash
             /\ positions' = r.book.positions
             /\ orders' = r.book.orders
             /\ order_ts' = order_ts \o
                    [n \in 1..(Len(r.book.orders) - Len(orders)) |-> tick]
             /\ trades' = r.book.trades
             /\ open_positions' = r.book.open_positions
             /\ raised' = r.exc
             /\ positive_prices' = (positive_prices /\ RGt(low, Zero))
             /\ seen_valid' = IF r.action # "nan" THEN seen_valid \cup {symbol}
                              ELSE seen_valid
             /\ last' = Step("process", symbol, Bar(close, low), indicator_row,
                             signal_row,
                             IF symbol \in DOMAIN positions THEN positions[symbol]
                             ELSE NoPosition,
                             r.action, r.action # "nan" /\ symbol \notin seen_valid)
             /\ IF r.exc # "none"
                THEN pc' = "raised" /\ sym_idx' = sym_idx
                ELSE NextSymbol
    /\ UNCHANGED <<fn, args, res, nops, nonneg, cfg, tick, price_snapshot, equity_now,
                   equity_history>>

\* Lines 223-230: all_dates is exhausted; compute_metrics, and the result.
Finish ==
    /\ pc = "tick"
    /\ LET metrics == compute_metrics(equity_history, trades)
       IN  /\ raised' = metrics.exc
           /\ pc' = IF metrics.exc = "none" THEN "done" ELSE "raised"
    /\ last' = PlainStep("metrics")
    /\ UNCHANGED <<fn, args, res, nops, nonneg, cfg, tick, sym_idx, price_snapshot,
                   equity_now, equity_history, cash, positions, orders, order_ts,
                   trades, open_positions, seen_valid, positive_prices>>

Next == Setup \/ SetupRaises \/ Tick \/ SkipSymbol \/ ProcessSymbol \/ Finish

Spec == Init /\ [][Next]_vars

---------------------------------------------------------------------------
(* Claims about a run (Spec).                                              *)

\* The latest step processed a bar with no NaN feature of a symbol that held
\* a position whose stop was set, and the bar's low was at or below the stop.
HardStopCase ==
    /\ last.op = "process"
    /\ last.action \notin {"no_bar", "nan"}
    /\ last.position # NoPosition
    /\ last.position.stop_price # NoneVal
    /\ RLe(last.bar.low, last.position.stop_price)

\* C2: on a bar with no NaN feature where the symbol holds a position whose
\* stop is set and bar.low <= stop, run appends exactly one sell order for the
\* whole held quantity at the stop price with reason "stop", records one
\* TradeRecord whose exit_price is the stop price, and does nothing else for
\* the symbol on that bar, whatever the signal row holds.
C2_HardStopClosesAtStop ==
    HardStopCase =>
        /\ raised = "none"
        /\ Len(orders) = last.norders + 1
        /\ orders[Len(orders)] =
               Order(last.symbol, last.position.quantity, last.position.stop_price,
                     "sell", "stop")
        /\ Len(trades) = last.ntrades + 1
        /\ trades[Len(trades)].symbol = last.symbol
        /\ trades[Len(trades)].exit_price = last.position.stop_price
        /\ last.symbol \notin DOMAIN positions

\* C3: no two orders of the order list are for the same symbol at the same
\* timestamp.
C3_OneOrderPerSymbolPerBar ==
    \A a \in 1..Len(orders) : \A b \in 1..Len(orders) :
        (a < b /\ orders[a].symbol = orders[b].symbol) => order_ts[a] # order_ts[b]

\* A position closed, by its stop or by an exit rule, on a bar whose entry
\* signal is true, after an entry on an earlier bar: two orders, no third.
C3_Witness ==
    /\ last.op = "process"
    /\ last.action \in {"stop", "exit"}
    /\ last.signal_row.entry
    /\ Len(orders) = 2
    /\ orders[1].symbol = orders[2].symbol
    /\ order_ts[1] < order_ts[2]

\* C4: while a position stays open its stop never decreases, and a trailing
\* stop value lower than or equal to the current stop leaves the stop as it is.
C4_StopNeverDecreases ==
    [][\A s \in DOMAIN positions \cap DOMAIN positions' :
          LET old == positions[s].stop_price
              new == positions'[s].stop_price
              trailing_stop == last'.signal_row.trailing_stop
          IN  /\ old # NoneVal => (new # NoneVal /\ RGe(new, old))
              /\ ( /\ last'.op = "process" /\ last'.symbol = s
                   /\ old # NoneVal
                   /\ trailing_stop # NoneVal /\ trailing_stop # NaN
                   /\ RLe(trailing_stop, old) ) => new = old]_vars

\* A held position whose bar computed a trailing stop strictly below its
\* stop: the position stays, its stop is the one it had.
C4_Witness ==
    /\ last.op = "process"
    /\ last.action = "hold"
    /\ last.position.stop_price # NoneVal
    /\ last.signal_row.trailing_stop # NoneVal /\ last.signal_row.trailing_stop # NaN
    /\ RLt(last.signal_row.trailing_stop, last.position.stop_price)
    /\ positions[last.symbol].stop_price = last.position.stop_price

\* C8: a run never raises a division by zero: a close of 0, an ATR of 0 or an
\* equity of 0 leads to a skipped or zero-size trade and a completed run.
C8_NoNumericException == raised # "ZeroDivisionError"

\* One symbol, an entry rule that is always true, fixed sizing with shares = 10.
FixedTenAlwaysEnter ==
    /\ Len(cfg.symbols) = 1
    /\ cfg.rules.entry = TrueRule
    /\ cfg.sizing.type = "fixed"
    /\ ParamGet(cfg.sizing.params, "shares", Zero) = Int2R(10)

\* The latest step bought 10 shares and the symbol's position holds 10.
BoughtTen ==
    /\ last.action = "buy"
    /\ Len(orders) = last.norders + 1
    /\ orders[Len(orders)].side = "buy"
    /\ orders[Len(orders)].quantity = Int2R(10)
    /\ last.symbol \in DOMAIN positions
    /\ positions[last.symbol].quantity = Int2R(10)

\* No buy on a bar of a symbol that holds a position.
NoBuyWhileOpen ==
    (last.op = "process" /\ last.position # NoPosition) => last.action # "buy"

TenSharesPermitted ==
    LET atr_value == select_atr(last.indicator_row, ATR_KEYS)
        notional == RMul(Int2R(10), last.bar.close)
    IN  /\ atr_value # NoneVal /\ RGt(atr_value, Zero)
        /\ RGt(last.equity, Zero)
        /\ cfg.limits.max_positions >= 1
        /\ RLe(notional, RMul(cfg.limits.max_position_pct, last.equity))
        /\ RLe(RDiv(notional, last.equity), cfg.limits.max_gross_exposure)

---------------------------------------------------------------------------
(* app/signals/rules.py: the text of an expression, _preprocess_expression *)
(* and ast.parse.                                                          *)
(*                                                                         *)
(* A text is the sequence of its lexical pieces: a parenthesis, a word, a  *)
(* number, an operator, or " " for a run of whitespace.                    *)

Space == " "
Words == {"rsi", "sma", "ema", "and", "or", "not", "between"}
Keywords == {"and", "or", "not", "between"}
NumberPieces == {"0", "1", "1.5", "2"}
ComparePieces == {">", ">=", "<", "<="}
ArithPieces == {"-"}

\* The value of a number literal.
LiteralValue(piece) ==
    CASE piece = "0" -> Zero
      [] piece = "1" -> One
      [] piece = "1.5" -> Rat(3, 2)
      [] OTHER -> Int2R(2)

\* The last piece of the run of non-whitespace pieces that starts at p.
RunEnd(text, p) ==
    CHOOSE r \in p..Len(text) :
        /\ \A j \in p..r : text[j] # Space
        /\ r = Len(text) \/ text[r + 1] = Space

\* _BETWEEN_PATTERN matches at p: lhs \s+ between \s+ low \s+ and \s+ high,
\* where low and high are runs of non-whitespace.
BetweenHead(text, p) ==
    /\ p + 4 <= Len(text)
    /\ text[p] \in Words
    /\ text[p + 1] = Space /\ text[p + 2] = "between" /\ text[p + 3] = Space
    /\ text[p + 4] # Space
BetweenMatch(text, p) ==
    /\ BetweenHead(text, p)
    /\ LET q == RunEnd(text, p + 4)
       IN  /\ q + 4 <= Len(text)
           /\ text[q + 1] = Space /\ text[q + 2] = "and" /\ text[q + 3] = Space
           /\ text[q + 4] # Space

\* repl with strict comparisons.
repl_Strict(lhs, low, high) ==
    <<"(", "(", lhs, Space, ">", Space>> \o low \o <<")", Space, "and", Space,
      "(", lhs, Space, "<", Space>> \o high \o <<")", ")">>

\* repl: f"(({lhs} >= {low}) and ({lhs} <= {high}))"
repl(lhs, low, high) ==
    <<"(", "(", lhs, Space, ">=", Space>> \o low \o <<")", Space, "and", Space,
      "(", lhs, Space, "<=", Space>> \o high \o <<")", ")">>

\* _BETWEEN_PATTERN.sub(repl, expression), scanning from piece p.
RECURSIVE between_sub(_, _)
between_sub(text, p) ==
    IF p > Len(text) THEN <<>>
    ELSE IF BetweenMatch(text, p)
    THEN LET q == RunEnd(text, p + 4)
             r == RunEnd(text, q + 4)
         IN  repl(text[p], SubSeq(text, p + 4, q), SubSeq(text, q + 4, r))
                 \o between_sub(text, r + 1)
    ELSE <<text[p]>> \o between_sub(text, p + 1)

preprocess_expression(expression) == between_sub(expression, 1)

\* The tokens of a text: its pieces without the whitespace.
Tokens(text) == SelectSeq(text, LAMBDA piece : piece # Space)

\* ast.parse(processed, mode="eval") for the grammar of or, and, not,
\* comparisons, subtractions, names, numbers and parentheses (no unary
\* minus): the tree and the tokens left, or a SyntaxError.
Parsed(tree, rest) == [ok |-> TRUE, tree |-> tree, rest |-> rest]
NoParse == [ok |-> FALSE, tree |-> Constant(PyNone), rest |-> <<>>]
CompareName(piece) ==
    CASE piece = ">" -> "Gt" [] piece = ">=" -> "GtE" [] piece = "<" -> "Lt"
      [] OTHER -> "LtE"

RECURSIVE parse_or(_), parse_or_more(_, _), parse_and(_), parse_and_more(_, _)
RECURSIVE parse_not(_), parse_comparison(_), parse_comparison_more(_, _, _, _), parse_atom(_)
RECURSIVE parse_arith(_), parse_arith_more(_, _)

\* The result of a parsing step, handed on to the steps that read it.
Then(step, Rest(_)) == CHOOSE out \in {Rest(done) : done \in {step}} : TRUE

parse_atom(toks) ==
    IF toks = <<>> THEN NoParse
    ELSE IF Head(toks) \in NumberPieces
    THEN Parsed(Constant(Num(LiteralValue(Head(toks)))), Tail(toks))
    ELSE IF Head(toks) \in Words \ Keywords THEN Parsed(Name(Head(toks)), Tail(toks))
    ELSE IF Head(toks) = "("
    THEN Then(parse_or(Tail(toks)),
              LAMBDA inner :
                  IF inner.ok /\ inner.rest # <<>> /\ Head(inner.rest) = ")"
                  THEN Parsed(inner.tree, Tail(inner.rest))
                  ELSE NoParse)
    ELSE NoParse

parse_arith_more(left, toks) ==
    IF toks # <<>> /\ Head(toks) \in ArithPieces
    THEN Then(parse_atom(Tail(toks)),
              LAMBDA right :
                  IF ~right.ok THEN NoParse
                  ELSE parse_arith_more(BinOp(left, "Sub", right.tree), right.rest))
    ELSE Parsed(left, toks)

parse_arith(toks) ==
    Then(parse_atom(toks),
         LAMBDA left :
             IF ~left.ok THEN NoParse ELSE parse_arith_more(left.tree, left.rest))

parse_comparison_more(left, ops, comparators, toks) ==
    IF toks # <<>> /\ Head(toks) \in ComparePieces
    THEN Then(parse_arith(Tail(toks)),
              LAMBDA right :
                  IF ~right.ok THEN NoParse
                  ELSE parse_comparison_more(
                           left, Append(ops, CompareName(Head(toks))),
                           Append(comparators, right.tree), right.rest))
    ELSE IF ops = <<>> THEN Parsed(left, toks)
    ELSE Parsed(Compare(left, ops, comparators), toks)

parse_comparison(toks) ==
    Then(parse_arith(toks),
         LAMBDA left :
             IF ~left.ok THEN NoParse
             ELSE parse_comparison_more(left.tree, <<>>, <<>>, left.rest))

parse_not(toks) ==
    IF toks # <<>> /\ Head(toks) = "not"
    THEN Then(parse_not(Tail(toks)),
              LAMBDA operand :
                  IF ~operand.ok THEN NoParse
                  ELSE Parsed(UnaryOp("Not", operand.tree), operand.rest))
    ELSE parse_comparison(toks)

parse_and_more(values, toks) ==
    IF toks # <<>> /\ Head(toks) = "and"
    THEN Then(parse_not(Tail(toks)),
              LAMBDA next :
                  IF ~next.ok THEN NoParse
                  ELSE parse_and_more(Append(values, next.tree), next.rest))
    ELSE IF Len(values) = 1 THEN Parsed(values[1], toks)
    ELSE Parsed(BoolOp("And", values), toks)

parse_and(toks) ==
    Then(parse_not(toks),
         LAMBDA first :
             IF ~first.ok THEN NoParse ELSE parse_and_more(<<first.tree>>, first.rest))

parse_or_more(values, toks) ==
    IF toks # <<>> /\ Head(toks) = "or"
    THEN Then(parse_and(Tail(toks)),
              LAMBDA next :
                  IF ~next.ok THEN NoParse
                  ELSE parse_or_more(Append(values, next.tree), next.rest))
    ELSE IF Len(values) = 1 THEN Parsed(values[1], toks)
    ELSE Parsed(BoolOp("Or", values), toks)

parse_or(toks) ==
    Then(parse_and(toks),
         LAMBDA first :
             IF ~first.ok THEN NoParse ELSE parse_or_more(<<first.tree>>, first.rest))

\* evaluate_expression on the text: preprocess, parse, visit.
evaluate_text(expression, context) ==
    LET processed == preprocess_expression(expression)
    IN  Then(parse_or(Tokens(processed)),
             LAMBDA parsed :
                 IF ~parsed.ok \/ parsed.rest # <<>> THEN EvRaise("SyntaxError")
                 ELSE evaluate_expression(parsed.tree, context))

---------------------------------------------------------------------------
(* evaluate_expression called once on a text with a between clause         *)
(* (SpecBetween).                                                          *)

Between(lhs, low, high) ==
    <<lhs, Space, "between", Space, low, Space, "and", Space, high>>
SmaAboveEma == <<"sma", Space, ">", Space, "ema">>

\* The texts: how the between clause is combined, and the pieces.
BetweenText(shape, low, high) ==
    LET clause == Between("rsi", low, high)
    IN  CASE shape = "alone" -> clause
          [] shape = "parens" -> <<"(">> \o clause \o <<")">>
          [] shape = "parens2" -> <<"(", "(">> \o clause \o <<")", ")">>
          [] shape = "spaced" -> <<"(", Space>> \o clause \o <<Space, ")">>
          [] shape = "and_parens" ->
                <<"(">> \o SmaAboveEma \o <<")", Space, "and", Space, "(">>
                    \o clause \o <<")">>
          [] shape = "parens_or" ->
                <<"(">> \o clause \o <<")", Space, "or", Space, "(">>
                    \o SmaAboveEma \o <<")">>
          [] shape = "then_and" -> clause \o <<Space, "and", Space>> \o SmaAboveEma
          [] shape = "or_then" -> SmaAboveEma \o <<Space, "or", Space>> \o clause
          [] OTHER -> <<"(">> \o SmaAboveEma \o <<Space, "and", Space>> \o clause \o <<")">>
AndShapes == {"and_parens", "then_and", "and_inside"}
OrShapes == {"parens_or", "or_then"}
Shapes == {"alone", "parens", "parens2", "spaced"} \cup AndShapes \cup OrShapes

RsiValues == {Num(Zero), Num(One), Num(Rat(3, 2)), Num(Int2R(2)), Num(Int2R(3)), PyNaN}
BetweenContexts ==
    {[id \in {"rsi", "sma", "ema"} |->
         CASE id = "rsi" -> x [] id = "sma" -> Num(s) [] OTHER -> Num(One)] :
            x \in RsiValues, s \in {Zero, Int2R(2)}}

InitBetween ==
    /\ PortfolioIdle /\ EngineIdle
    /\ fn = "evaluate_text"
    /\ args \in [shape : Shapes, low : NumberPieces, high : NumberPieces,
                 context : BetweenContexts]
    /\ res = EvRet(PyNone)

CallEvaluateText ==
    /\ fn = "evaluate_text"
    /\ res' = evaluate_text(BetweenText(args.shape, args.low, args.high), args.context)
    /\ fn' = "returned:evaluate_text"
    /\ UNCHANGED <<args, portfolioVars, engineVars>>

NextBetween == CallEvaluateText

SpecBetween == InitBetween /\ [][NextBetween]_vars

---------------------------------------------------------------------------
(* Claims about the between clause (SpecBetween).                          *)

\* low <= rsi <= high for the literals and the context of the call.
WithinBounds ==
    LET x == args.context["rsi"]
    IN  /\ ~IsNaN(x)
        /\ RLe(LiteralValue(args.low), x.v)
        /\ RLe(x.v, LiteralValue(args.high))
OtherCondition == RGt(args.context["sma"].v, args.context["ema"].v)

---------------------------------------------------------------------------
(* evaluate_rules called once on a rule set, a bar and a feature row       *)
(* (SpecRules).                                                            *)

MaxExitRules == 3

TruthyClose == Rule("close", FALSE, Name("close"))
ExitRuleChoices == {BelowSma, AboveSma, TrueRule, TruthyClose, TrailAtr, MacdRule}
RECURSIVE ExitLists(_)
ExitLists(n) ==
    IF n = 0 THEN {<<>>}
    ELSE ExitLists(n - 1)
         \cup {Append(l, r) : l \in {x \in ExitLists(n - 1) : Len(x) = n - 1},
                              r \in ExitRuleChoices}
RuleRows == [{"atr14", "sma"} -> {NaN, Rat(1, 2), Rat(3, 2)}]
\* Rows with a feature named as a field of the bar.
CollidingRows == [{"close", "sma"} -> {Rat(1, 2), Rat(3, 2)}]

InitRules ==
    /\ PortfolioIdle /\ EngineIdle
    /\ fn = "evaluate_rules"
    /\ args \in [exit : ExitLists(MaxExitRules), close : Closes,
                 features : RuleRows \cup CollidingRows]
    /\ res = NoSignal

CallEvaluateRules ==
    /\ fn = "evaluate_rules"
    /\ res' = evaluate_rules([entry |-> TrueRule, exit |-> args.exit],
                             Latest(Bar(args.close, args.close)), args.features)
    /\ fn' = "returned:evaluate_rules"
    /\ UNCHANGED <<args, portfolioVars, engineVars>>

NextRules == CallEvaluateRules

SpecRules == InitRules /\ [][NextRules]_vars

---------------------------------------------------------------------------
(* Claims about evaluate_rules (SpecRules).                                *)

\* The exit rule is not a trailing_stop directive and its expression is true
\* in the context of the call.
Fires(rule) ==
    /\ ~rule.trailing
    /\ LET value == evaluate_expression(rule.tree,
                        RuleContext(Latest(Bar(args.close, args.close)), args.features))
       IN  value.exc = "none" /\ Truthy(value.val)
FiringRules == SelectSeq(args.exit, Fires)

\* C12: exit_reasons is, in the order of the exit list, the text of every exit
\* rule that is not a trailing_stop directive and whose expression is true;
\* no trailing_stop directive is in it.
C12_ExitReasonsAllFiring ==
    (fn = "returned:evaluate_rules" /\ res.exc = "none") =>
        /\ res.exit_reasons = [n \in 1..Len(FiringRules) |-> FiringRules[n].text]
        /\ \A n \in 1..Len(res.exit_reasons) :
               \A m \in 1..Len(args.exit) :
                   args.exit[m].trailing => res.exit_reasons[n] # args.exit[m].text

\* Two rules fire around a trailing_stop directive and a rule that does not.
C12_Witness ==
    /\ fn = "returned:evaluate_rules" /\ res.exc = "none"
    /\ Len(args.exit) = 3
    /\ args.exit[2].trailing
    /\ Len(res.exit_reasons) = 2
    /\ res.exit_reasons[1] # res.exit_reasons[2]
    /\ res.trailing_stop # NoneVal

---------------------------------------------------------------------------
(* app/signals/indicators.py                                               *)

\* Float arithmetic on a rational or not-a-number: not-a-number propagates.
FAdd(a, b) == IF a = NaN \/ b = NaN THEN NaN ELSE RAdd(a, b)
FSub(a, b) == IF a = NaN \/ b = NaN THEN NaN ELSE RSub(a, b)
FMul(a, b) == IF a = NaN \/ b = NaN THEN NaN ELSE RMul(a, b)
\* a / b for b # 0 (the callers test b == 0 first).
FDiv(a, b) == IF a = NaN \/ b = NaN THEN NaN ELSE RDiv(a, b)
FAbs(a) == IF a = NaN THEN NaN ELSE RAbs(a)

Hundred == Int2R(100)

\* _get_prices(bars, "close")
get_closes(bars) == [n \in 1..Len(bars) |-> bars[n].close]

\* sum(values): from 0, left to right.
RECURSIVE PySum(_)
PySum(values) ==
    IF values = <<>> THEN Zero
    ELSE FAdd(PySum(SubSeq(values, 1, Len(values) - 1)), values[Len(values)])

\* _rolling_mean for window >= 1; index i of the code is n - 1 here.
rolling_mean(values, window) ==
    [n \in 1..Len(values) |->
        IF n < window THEN NaN
        ELSE FDiv(PySum(SubSeq(values, n + 1 - window, n)), Int2R(window))]

\* _ema for window >= 1: the first value seeds the average, whatever it is.
RECURSIVE ema(_, _)
ema(values, window) ==
    IF values = <<>> THEN <<>>
    ELSE LET alpha == Rat(2, window + 1)
             before == ema(SubSeq(values, 1, Len(values) - 1), window)
             value == values[Len(values)]
         IN  Append(before,
                    IF before = <<>> THEN value
                    ELSE FAdd(FMul(alpha, value),
                              FMul(RSub(One, alpha), before[Len(before)])))

\* _true_range
true_range(bars) ==
    [n \in 1..Len(bars) |->
        LET high_low == RSub(bars[n].high, bars[n].low)
        IN  IF n = 1 THEN high_low
            ELSE LET prev_close == bars[n - 1].close
                     high_close == RAbs(RSub(bars[n].high, prev_close))
                     low_close == RAbs(RSub(bars[n].low, prev_close))
                 IN  RMax(RMax(high_low, high_close), low_close)]

\* [nan if i + 1 < window else v for i, v in enumerate(values)]
mask_warm_up(values, window) ==
    [n \in 1..Len(values) |-> IF n < window THEN NaN ELSE values[n]]

\* _sma
sma(bars, window) == rolling_mean(get_closes(bars), window)

\* _ema_indicator
ema_indicator(bars, window) == mask_warm_up(ema(get_closes(bars), window), window)

\* _rsi: gains and losses of the closes, and their smoothed averages.
gains(closes) ==
    [n \in 1..Len(closes) |->
        IF n = 1 THEN Zero ELSE RMax(RSub(closes[n], closes[n - 1]), Zero)]
losses(closes) ==
    [n \in 1..Len(closes) |->
        IF n = 1 THEN Zero ELSE RMax(RSub(closes[n - 1], closes[n]), Zero)]
avg_gain(bars, window) == ema(gains(get_closes(bars)), window)
avg_loss(bars, window) == ema(losses(get_closes(bars)), window)

\* _rsi past the warm-up, with 0 where there is no loss.
rsi_value_ZeroOnNoLoss(gain, loss) ==
    IF loss = Zero THEN Zero
    ELSE RSub(Hundred, RDiv(Hundred, RAdd(One, RDiv(gain, loss))))

\* _rsi past the warm-up: 100.0 if avg_loss[i] == 0, else 100 - (100 / (1 + rs)).
rsi_value(gain, loss) ==
    IF loss = Zero THEN Hundred
    ELSE LET rs == FDiv(gain, loss)
         IN  FSub(Hundred, FDiv(Hundred, FAdd(One, rs)))

\* _rsi
rsi(bars, window) ==
    LET gain == avg_gain(bars, window)
        loss == avg_loss(bars, window)
    IN  [n \in 1..Len(bars) |->
            IF n < window THEN NaN ELSE rsi_value(gain[n], loss[n])]

\* _atr
atr(bars, window) == mask_warm_up(ema(true_range(bars), window), window)

\* _roc: not-a-number for i < window and for a previous close of 0.
roc(bars, window) ==
    LET closes == get_closes(bars)
    IN  [n \in 1..Len(closes) |->
            IF n - 1 < window THEN NaN
            ELSE LET prev == closes[n - window]
                 IN  IF prev # Zero
                     THEN FMul(FDiv(FSub(closes[n], prev), prev), Hundred)
                     ELSE NaN]

\* _adx: the directional movements, the per-bar values, and their _ema, which
\* is returned as it is.
plus_dm(bars) ==
    [n \in 1..Len(bars) |->
        IF n = 1 THEN Zero
        ELSE LET up_move == RSub(bars[n].high, bars[n - 1].high)
                 down_move == RSub(bars[n - 1].low, bars[n].low)
             IN  IF RGt(up_move, down_move) THEN RMax(up_move, Zero) ELSE Zero]
minus_dm(bars) ==
    [n \in 1..Len(bars) |->
        IF n = 1 THEN Zero
        ELSE LET up_move == RSub(bars[n].high, bars[n - 1].high)
                 down_move == RSub(bars[n - 1].low, bars[n].low)
             IN  IF RGt(down_move, up_move) THEN RMax(down_move, Zero) ELSE Zero]
adx_values(bars, window) ==
    LET tr == true_range(bars)
        plus_di_raw == ema(plus_dm(bars), window)
        minus_di_raw == ema(minus_dm(bars), window)
    IN  [n \in 1..Len(bars) |->
            IF tr[n] = Zero THEN NaN
            ELSE LET plus_di == FDiv(FMul(Hundred, plus_di_raw[n]), tr[n])
                     minus_di == FDiv(FMul(Hundred, minus_di_raw[n]), tr[n])
                     denom == FAdd(plus_di, minus_di)
                 IN  IF denom = Zero THEN NaN
                     ELSE FMul(FDiv(FAbs(FSub(plus_di, minus_di)), denom), Hundred)]
adx(bars, window) == ema(adx_values(bars, window), window)

\* INDICATOR_REGISTRY, without macd and bollinger_pct.
IndicatorKinds == {"sma", "ema", "rsi", "atr", "roc", "adx"}

\* compute_indicator(kind, bars, {"window": window})
compute_indicator(kind, bars, window) ==
    CASE kind = "sma" -> Ret(sma(bars, window))
      [] kind = "ema" -> Ret(ema_indicator(bars, window))
      [] kind = "rsi" -> Ret(rsi(bars, window))
      [] kind = "atr" -> Ret(atr(bars, window))
      [] kind = "roc" -> Ret(roc(bars, window))
      [] kind = "adx" -> Ret(adx(bars, window))
      [] OTHER -> Raise("KeyError")

---------------------------------------------------------------------------
(* The calls of compute_indicator (SpecIndicators): a series of at most    *)
(* MaxSeries bars with positive prices and high > low, a window of at most *)
(* MaxWindow.                                                              *)

MaxSeries == 4
MaxWindow == 3
SeriesCloses == {Int2R(2), Int2R(3), Int2R(4)}
\* The bars of tests/signals/test_indicators.py: high = close + 1, low = close - 1.
SeriesBar(close) == PriceBar(close, RAdd(close, One), RSub(close, One), close, One)
SeriesBars == {SeriesBar(close) : close \in SeriesCloses}
RECURSIVE Series(_)
Series(n) ==
    IF n = 0 THEN {<<>>}
    ELSE Series(n - 1)
         \cup {Append(s, b) : s \in {x \in Series(n - 1) : Len(x) = n - 1},
                              b \in SeriesBars}

InitIndicators ==
    /\ PortfolioIdle /\ EngineIdle
    /\ fn = "compute_indicator"
    /\ args \in [kind : IndicatorKinds \cup {"vwap"},
                 bars : Series(MaxSeries) \ {<<>>},
                 window : 1..MaxWindow]
    /\ res = Ret(<<>>)

CallComputeIndicator ==
    /\ fn = "compute_indicator"
    /\ res' = compute_indicator(args.kind, args.bars, args.window)
    /\ fn' = "returned:compute_indicator"
    /\ UNCHANGED <<args, portfolioVars, engineVars>>

NextIndicators == CallComputeIndicator

SpecIndicators == InitIndicators /\ [][NextIndicators]_vars

---------------------------------------------------------------------------
(* Claims about the indicators (SpecIndicators).                           *)

IndicatorReturned == fn = "returned:compute_indicator" /\ res.exc = "none"

\* The warm-up of the kind is satisfied at the n-th value (index n - 1).
WarmedUp(kind, n, window) ==
    IF kind = "roc" THEN n - 1 >= window ELSE n >= window

\* The values of the kind are not-a-number before the warm-up and numbers
\* from there on.
WarmUpThenDefined(kind) ==
    (IndicatorReturned /\ args.kind = kind /\ Len(args.bars) >= args.window) =>
        \A n \in 1..Len(res.val) :
            (res.val[n] # NaN) <=> WarmedUp(kind, n, args.window)

\* C14: each of SMA, EMA, RSI, ATR, ROC and ADX, on a series of positive
\* prices with high > low at least as long as the window, is not-a-number at
\* every index before its warm-up and a number at every index from there on.
C14_NaNExactlyBeforeWarmUp == \A kind \in IndicatorKinds : WarmUpThenDefined(kind)

\* The same for the five kinds other than ADX.
WarmUpThenDefinedButAdx == \A kind \in IndicatorKinds \ {"adx"} : WarmUpThenDefined(kind)

\* ADX is not-a-number at every index of every series.
AdxAllNaN ==
    (IndicatorReturned /\ args.kind = "adx") =>
        \A n \in 1..Len(res.val) : res.val[n] = NaN

\* C15: every RSI value at or after the warm-up lies in [0, 100], and is 100
\* where the smoothed average loss is exactly zero.
C15_RsiWithinZeroHundred ==
    (IndicatorReturned /\ args.kind = "rsi") =>
        \A n \in 1..Len(res.val) :
            n >= args.window =>
                /\ res.val[n] # NaN
                /\ RLe(Zero, res.val[n]) /\ RLe(res.val[n], Hundred)
                /\ avg_loss(args.bars, args.window)[n] = Zero => res.val[n] = Hundred

\* On one series the RSI is 100 where nothing was lost yet, and strictly
\* between 0 and 100 after the first loss.
C15_Witness ==
    /\ IndicatorReturned /\ args.kind = "rsi" /\ args.window = 2
    /\ Len(res.val) = 4
    /\ res.val[2] = Hundred /\ avg_loss(args.bars, args.window)[2] = Zero
    /\ RLt(Zero, res.val[3]) /\ RLt(res.val[3], Hundred)
    /\ avg_loss(args.bars, args.window)[3] # Zero

---------------------------------------------------------------------------
(* More claims about a run (Spec).                                         *)

\* C13: compute_metrics raises on an equity curve of fewer than two
\* observations, so a run over fewer than two timestamps raises and returns
\* no result.
C13_FewerThanTwoTimestampsFails ==
    /\ (last.op = "metrics" /\ tick < 2) => (pc = "raised" /\ raised = "ValueError")
    /\ pc = "done" => tick >= 2

\* A run over one timestamp, on which it bought, fails in compute_metrics.
C13_Witness ==
    /\ last.op = "metrics"
    /\ tick = 1 /\ Len(equity_history) = 1
    /\ Len(orders) = 1
    /\ pc = "raised" /\ raised = "ValueError"

\* The orders of a symbol, in the order run appended them.
OrdersOf(symbol) == SelectSeq(orders, LAMBDA o : o.symbol = symbol)

\* C16: the orders of each symbol alternate buy, sell, buy, ... from a buy;
\* the symbol has an open position exactly after a buy, a buy is emitted only
\* by a step that found no position and a sell only by one that found one.
C16_OrdersAlternate ==
    /\ \A s \in Symbols :
          /\ \A n \in 1..Len(OrdersOf(s)) :
                OrdersOf(s)[n].side = IF n % 2 = 1 THEN "buy" ELSE "sell"
          /\ s \in DOMAIN positions <=> Len(OrdersOf(s)) % 2 = 1
    /\ \A n \in 1..Len(orders) :
          (last.op = "process" /\ n > last.norders) =>
              /\ orders[n].symbol = last.symbol
              /\ orders[n].side = "buy" <=> last.position = NoPosition

\* A symbol was bought, sold and bought again.
C16_Witness ==
    /\ \E s \in Symbols : Len(OrdersOf(s)) = 3
    /\ last.op = "process" /\ last.action = "buy"

\* C17: a step on a bar whose indicator row has a not-a-number leaves cash,
\* the positions, the orders, the trades and the open entries as they were.
C17_NaNBarChangesNothing ==
    [][(last'.op = "process" /\ \E f \in DOMAIN last'.indicator_row :
                                    last'.indicator_row[f] = NaN)
        => UNCHANGED <<cash, positions, orders, trades, open_positions>>]_vars

\* A bar with a not-a-number was skipped although its low was at or below the
\* stop of the position held and an exit rule fired on it.
C17_Witness ==
    /\ last.op = "process"
    /\ \E f \in DOMAIN last.indicator_row : last.indicator_row[f] = NaN
    /\ last.position # NoPosition
    /\ last.position.stop_price # NoneVal
    /\ RLe(last.bar.low, last.position.stop_price)
    /\ last.signal_row.exit_reasons # <<>>
    /\ last.symbol \in DOMAIN positions
    /\ positions[last.symbol] = last.position
    /\ Len(orders) = last.norders /\ Len(trades) = last.ntrades

\* C18: the equity history has one pair per timestamp reached, the k-th pair
\* carries the k-th timestamp, the first equity is the initial equity, and
\* every order of a timestamp is appended after the pair of that timestamp.
C18_OneEquityPairPerTimestamp ==
    /\ Len(equity_history) = tick
    /\ \A k \in 1..Len(equity_history) : equity_history[k][1] = k
    /\ Len(equity_history) >= 1 => equity_history[1][2] = cfg.initial_equity
    /\ \A n \in 1..Len(order_ts) : order_ts[n] <= Len(equity_history)
    /\ last.op = "tick" => \A n \in 1..Len(order_ts) : order_ts[n] < tick

\* Three timestamps, with orders on the first and on the last.
C18_Witness ==
    /\ Len(equity_history) = 3
    /\ \E n, m \in 1..Len(order_ts) : order_ts[n] = 1 /\ order_ts[m] = 3
    /\ equity_history[1][2] = cfg.initial_equity
    /\ equity_history[3][2] # cfg.initial_equity

\* What a symbol adds to the equity of the timestamp.
Contribution(s) ==
    IF s \in DOMAIN positions /\ s \in DOMAIN price_snapshot
    THEN RMul(positions[s].quantity, price_snapshot[s])
    ELSE Zero

\* C19: the equity recorded at a timestamp is the cash plus quantity * close
\* over the open positions whose symbol has a bar at the timestamp; a
\* position whose symbol has no bar adds nothing.
C19_EquityIsCashPlusHeldCloses ==
    last.op = "tick" =>
        /\ equity_now = RAdd(cash, RAdd(Contribution("AAA"), Contribution("BBB")))
        /\ equity_history[tick] = <<tick, equity_now>>

\* Two positions are open; the symbol of one, bought above 0, has no bar at
\* the timestamp, and the other one has a close above 0.
C19_Witness ==
    /\ last.op = "tick"
    /\ "AAA" \in DOMAIN positions /\ "AAA" \notin DOMAIN price_snapshot
    /\ RGt(positions["AAA"].avg_price, Zero)
    /\ "BBB" \in DOMAIN positions /\ "BBB" \in DOMAIN price_snapshot
    /\ RGt(price_snapshot["BBB"], Zero)
    /\ equity_history[tick][2] = RAdd(cash, RMul(positions["BBB"].quantity,
                                                  price_snapshot["BBB"]))

---------------------------------------------------------------------------
(* More claims about the risk helpers (SpecRisk).                          *)

\* C20: apply_position_limits returns 0 whenever current_positions >=
\* max_positions, for every max_positions >= 0.
C20_NoEntryAtMaxPositions ==
    (LimitsReturned /\ args.counts[1] >= 0 /\ args.counts[2] >= args.counts[1]) =>
        (res.exc = "none" /\ res.val = Zero)

\* The same for max_positions >= 1.
NoEntryAtPositiveMaxPositions ==
    (LimitsReturned /\ args.counts[1] >= 1 /\ args.counts[2] >= args.counts[1]) =>
        (res.exc = "none" /\ res.val = Zero)

---------------------------------------------------------------------------
(* Claims about the money of a run (Spec).                                 *)

\* The run of the claim: an initial equity >= 0, both limits at most 1, and
\* only positive closes and lows so far.
WithinLimitsOnPositivePrices ==
    /\ pc # "start"
    /\ RGe(cfg.initial_equity, Zero)
    /\ RLe(cfg.limits.max_gross_exposure, One)
    /\ RLe(cfg.limits.max_position_pct, One)
    /\ positive_prices

\* C21: in a run with initial equity >= 0, positive prices and both limits at
\* most 1, the cash is never negative after any order.
C21_CashNeverNegative == WithinLimitsOnPositivePrices => RGe(cash, Zero)

\* The same for the runs in which no position was stopped out so far.
CashNeverNegativeWithoutStop ==
    (WithinLimitsOnPositivePrices /\ \A n \in 1..Len(orders) : orders[n].reason # "stop")
        => RGe(cash, Zero)

---------------------------------------------------------------------------
(* Claims about the entry of a run (Spec).                                 *)

\* The latest step was given a bar of a symbol without a position, a true
\* entry signal and a row without a not-a-number.
FlatEntryCase ==
    /\ last.op = "process" /\ last.action # "no_bar"
    /\ last.position = NoPosition
    /\ last.signal_row.entry
    /\ \A f \in DOMAIN last.indicator_row : last.indicator_row[f] # NaN

\* The places in the preference order of the keys the row has with a
\* positive value, and of the keys the row has.
PositiveAtrKeys ==
    {n \in 1..Len(ATR_KEYS) : /\ ATR_KEYS[n] \in DOMAIN last.indicator_row
                              /\ RGt(last.indicator_row[ATR_KEYS[n]], Zero)}
PresentAtrKeys == {n \in 1..Len(ATR_KEYS) : ATR_KEYS[n] \in DOMAIN last.indicator_row}
First(places) == CHOOSE n \in places : \A m \in places : n <= m

\* The step went on to the sizing and the limits.
ProceededToSizing == last.action \in {"no_qty", "buy", "raise"}

\* The stop of the position the step opened, where it has one, is the close
\* less the ATR times the multiple of the sizing parameters.
StopFromAtr(atr_value) ==
    (last.action = "buy" /\ positions[last.symbol].stop_price # NoneVal) =>
        positions[last.symbol].stop_price =
            RSub(last.bar.close,
                 RMul(atr_value, ParamGet(cfg.sizing.params, "atr_multiple", Int2R(2))))

\* C23: on a bar where the symbol is flat, entry is true and no feature is
\* not-a-number, the step goes on to the sizing exactly if one of atr14, atr,
\* atr_14 is present with a positive value, and the first such key gives the
\* ATR of the stop.
C23_FirstPositiveAtrKey ==
    FlatEntryCase =>
        /\ ProceededToSizing <=> PositiveAtrKeys # {}
        /\ PositiveAtrKeys # {} =>
              StopFromAtr(last.indicator_row[ATR_KEYS[First(PositiveAtrKeys)]])

\* The same with the first key the row has, whatever its value.
FirstPresentAtrKey ==
    FlatEntryCase =>
        /\ ProceededToSizing <=>
              /\ PresentAtrKeys # {}
              /\ RGt(last.indicator_row[ATR_KEYS[First(PresentAtrKeys)]], Zero)
        /\ PresentAtrKeys # {} =>
              StopFromAtr(last.indicator_row[ATR_KEYS[First(PresentAtrKeys)]])

\* The stop the entry computes for the latest step: close - atr * atr_multiple.
EntryStop ==
    RSub(last.bar.close,
         RMul(select_atr(last.indicator_row, ATR_KEYS),
              ParamGet(cfg.sizing.params, "atr_multiple", Int2R(2))))

\* C24: after every buy at close p with ATR a the stop of the new position is
\* p - a * atr_multiple, and no position of a run is without a stop.
C24_EveryBuySetsStop ==
    /\ last.action = "buy" =>
          /\ last.symbol \in DOMAIN positions
          /\ positions[last.symbol].stop_price = EntryStop
    /\ \A s \in DOMAIN positions : positions[s].stop_price # NoneVal

\* The same for the buys whose stop is not 0.
EveryBuySetsNonZeroStop ==
    (last.action = "buy" /\ EntryStop # Zero) =>
        /\ last.symbol \in DOMAIN positions
        /\ positions[last.symbol].stop_price = EntryStop

---------------------------------------------------------------------------
(* More claims about evaluate_rules (SpecRules).                           *)

\* The context in which a feature named as a field of the bar has the value
\* of the feature.
FeaturesFirstContext(latest, features) ==
    [id \in DOMAIN features \cup DOMAIN latest |->
        IF id \in DOMAIN features THEN ToValue(features[id]) ELSE ToValue(latest[id])]

\* The exit rule is not a trailing_stop directive and is true where features
\* come first.
FiresFeaturesFirst(rule) ==
    /\ ~rule.trailing
    /\ LET value == evaluate_expression(rule.tree,
                        FeaturesFirstContext(Latest(Bar(args.close, args.close)),
                                             args.features))
       IN  value.exc = "none" /\ Truthy(value.val)
FiringFeaturesFirst == SelectSeq(args.exit, FiresFeaturesFirst)

\* C25: with a feature named close, the exit expressions are evaluated with
\* the value of the feature under that name, not the close of the bar.
C25_FeatureShadowsBarField ==
    (fn = "returned:evaluate_rules" /\ res.exc = "none"
        /\ "close" \in DOMAIN args.features) =>
        res.exit_reasons =
            [n \in 1..Len(FiringFeaturesFirst) |-> FiringFeaturesFirst[n].text]

---------------------------------------------------------------------------
(* app/signals/rules.py: evaluate_rules on the texts of the rules.         *)

\* str.lstrip(chars), str.rstrip(chars) and str.strip(chars) on the pieces of
\* a text, for chars that are pieces.
RECURSIVE lstrip(_, _)
lstrip(text, chars) ==
    IF text # <<>> /\ Head(text) \in chars THEN lstrip(Tail(text), chars) ELSE text
RECURSIVE rstrip(_, _)
rstrip(text, chars) ==
    IF text # <<>> /\ text[Len(text)] \in chars
    THEN rstrip(SubSeq(text, 1, Len(text) - 1), chars)
    ELSE text
strip(text, chars) == rstrip(lstrip(text, chars), chars)

\* rule[len("trailing_stop"):].strip("() ")
directive_inner(rule) == strip(Tail(rule), {"(", ")", Space})

\* The loop of evaluate_rules over the texts of rules.get("exit", []).
RECURSIVE exit_loop_text(_, _, _, _, _)
exit_loop_text(exit_rules, context, entry_result, exit_reasons, trailing_stop_value) ==
    IF exit_rules = <<>>
    THEN RuleOutcome("none", entry_result, exit_reasons, trailing_stop_value)
    ELSE LET rule == strip(Head(exit_rules), {Space})
             trailing == rule # <<>> /\ Head(rule) = "trailing_stop"
             r == evaluate_text(IF trailing THEN directive_inner(rule) ELSE rule, context)
         IN  IF r.exc # "none" THEN RuleOutcome(r.exc, FALSE, <<>>, NoneVal)
             ELSE IF trailing
             THEN IF ~IsNumber(r.val) THEN RuleOutcome("TypeError", FALSE, <<>>, NoneVal)
                  ELSE exit_loop_text(Tail(exit_rules), context, entry_result,
                                      exit_reasons,
                                      IF IsNaN(r.val) THEN NaN ELSE r.val.v)
             ELSE exit_loop_text(Tail(exit_rules), context, entry_result,
                                 IF Truthy(r.val) THEN Append(exit_reasons, rule)
                                 ELSE exit_reasons,
                                 trailing_stop_value)

\* evaluate_rules(rules, latest, features) on texts.
evaluate_rules_text(rules, latest, features) ==
    LET context == RuleContext(latest, features)
        e == evaluate_text(rules.entry, context)
    IN  IF e.exc # "none" THEN RuleOutcome(e.exc, FALSE, <<>>, NoneVal)
        ELSE exit_loop_text(rules.exit, context, Truthy(e.val), <<>>, NoneVal)

---------------------------------------------------------------------------
(* The calls of evaluate_rules on exit lists with trailing_stop directives *)
(* (SpecTrailing).                                                         *)

MaxDirectives == 2

\* Numeric expressions of the grammar over sma and rsi.
PlainExprs ==
    { <<"sma">>, <<"2">>, <<"sma", Space, "-", Space, "1">>, <<"(", "sma", ")">> }
ParenExprs ==
    { <<"sma", Space, "-", Space, "(", "rsi", ")">>,
      <<"(", "sma", Space, "-", Space, "rsi", ")", Space, "-", Space, "1">> }
SmaAboveRsi == <<"sma", Space, ">", Space, "rsi">>

\* An item of the exit list: trailing_stop(expr), or a rule.
ExitItems ==
    {[directive |-> TRUE, expr |-> e] : e \in PlainExprs \cup ParenExprs}
        \cup {[directive |-> FALSE, expr |-> SmaAboveRsi]}
ExitText(item) ==
    IF item.directive THEN <<"trailing_stop", "(">> \o item.expr \o <<")">>
    ELSE item.expr
RECURSIVE ItemLists(_)
ItemLists(n) ==
    IF n = 0 THEN {<<>>}
    ELSE ItemLists(n - 1)
         \cup {Append(l, item) : l \in {x \in ItemLists(n - 1) : Len(x) = n - 1},
                                 item \in ExitItems}
TrailingRows == [{"rsi", "sma"} -> {Rat(1, 2), Rat(3, 2)}]

InitTrailing ==
    /\ PortfolioIdle /\ EngineIdle
    /\ fn = "evaluate_rules_text"
    /\ args \in [exit : ItemLists(MaxDirectives), features : TrailingRows]
    /\ res = NoSignal

CallEvaluateRulesText ==
    /\ fn = "evaluate_rules_text"
    /\ res' = evaluate_rules_text(
                 [entry |-> SmaAboveRsi,
                  exit |-> [n \in 1..Len(args.exit) |-> ExitText(args.exit[n])]],
                 Latest(Bar(One, One)), args.features)
    /\ fn' = "returned:evaluate_rules_text"
    /\ UNCHANGED <<args, portfolioVars, engineVars>>

NextTrailing == CallEvaluateRulesText

SpecTrailing == InitTrailing /\ [][NextTrailing]_vars

---------------------------------------------------------------------------
(* Claims about the trailing_stop directive (SpecTrailing).                *)

\* The directives of the exit list of the call, and the value of an
\* expression in the context of the call.
Directives == SelectSeq(args.exit, LAMBDA item : item.directive)
ExprValue(expr) ==
    evaluate_text(expr, RuleContext(Latest(Bar(One, One)), args.features)).val.v
LastDirectiveValue ==
    IF Directives = <<>> THEN NoneVal
    ELSE ExprValue(Directives[Len(Directives)].expr)

\* C26: for exit rules trailing_stop(E) with E a numeric expression of the
\* grammar, evaluate_rules returns the value of the E of the last directive
\* as trailing_stop, and none when the list has no directive.
C26_TrailingStopIsLastDirective ==
    fn = "returned:evaluate_rules_text" =>
        /\ res.exc = "none"
        /\ res.trailing_stop = LastDirectiveValue

\* The same for the lists whose directives do not end in a parenthesis of
\* their own.
PlainDirectivesOnly ==
    \A n \in 1..Len(Directives) : Directives[n].expr \in PlainExprs
TrailingStopIsLastPlainDirective ==
    (fn = "returned:evaluate_rules_text" /\ PlainDirectivesOnly) =>
        /\ res.exc = "none"
        /\ res.trailing_stop = LastDirectiveValue

---------------------------------------------------------------------------
(* Claims about the rules of a run (Spec).                                 *)

\* The entry expression or an exit expression of the strategy raises on the
\* bar and its feature row.
ExpressionRaises(config, bar, row) ==
    LET context == RuleContext(Latest(bar), row)
    IN  \/ evaluate_expression(config.rules.entry.tree, context).exc # "none"
        \/ \E n \in 1..Len(config.rules.exit) :
              evaluate_expression(config.rules.exit[n].tree, context).exc # "none"

\* C27: a bar on which a rule expression raises is never a bar of the
\* simulation loop, so that no run with such a bar returns a result; the
\* exception of the expression is raised by run before the first timestamp:
\* no equity is recorded and no order is simulated.
C27_RuleErrorFailsRunBeforeOrders ==
    /\ (last.op = "process" /\ last.action # "no_bar") =>
          ~ExpressionRaises(cfg, last.bar, last.indicator_row)
    /\ (pc = "raised" /\ last.op = "setup") =>
          /\ raised # "none"
          /\ \E bar \in Bars, row \in FeatureRows(cfg) : ExpressionRaises(cfg, bar, row)
          /\ tick = 0 /\ equity_history = <<>>
          /\ orders = <<>> /\ trades = <<>> /\ positions = EmptyDict

\* The entry rule divides by an indicator that is 0 on a bar of the data:
\* run raised ZeroDivisionError before its loops.
C27_Witness ==
    /\ pc = "raised" /\ last.op = "setup"
    /\ cfg.rules.entry = CloseOverAtr
    /\ raised = "ZeroDivisionError"
    /\ orders = <<>> /\ equity_history = <<>>

---------------------------------------------------------------------------
(* Claims about the closings of a run (Spec).                              *)

SellOrders == SelectSeq(orders, LAMBDA o : o.side = "sell")

\* The latest step appended a sell order.
SoldNow ==
    /\ last.op = "process"
    /\ Len(orders) > last.norders
    /\ orders[Len(orders)].side = "sell"

\* The n-th trade is the trade of the n-th sell order.
TradeOfSell(n) ==
    /\ trades[n].symbol = SellOrders[n].symbol
    /\ trades[n].quantity = SellOrders[n].quantity
    /\ trades[n].exit_price = SellOrders[n].price
    /\ trades[n].pnl = RMul(RSub(trades[n].exit_price, trades[n].entry_price),
                            trades[n].quantity)

\* What a step that sells does.
SellClosesWholePosition ==
    SoldNow =>
        /\ Len(orders) = last.norders + 1
        /\ last.position # NoPosition
        /\ orders[Len(orders)].symbol = last.symbol
        /\ orders[Len(orders)].quantity = last.position.quantity
        /\ last.symbol \notin DOMAIN positions
        /\ orders[Len(orders)].reason # "stop" =>
              /\ orders[Len(orders)].price = last.bar.close
              /\ last.signal_row.exit_reasons # <<>>
              /\ orders[Len(orders)].reason = JoinReasons(last.signal_row.exit_reasons)

\* C22: every sell order is for the whole quantity held, removes the position
\* and has exactly one TradeRecord, with pnl = (exit price - entry price) *
\* quantity; a rule exit fills at the close with the joined exit reasons as
\* its reason; there are as many TradeRecords as sell orders, so that an
\* open position has none.
C22_EverySellClosesAndRecords ==
    /\ SellClosesWholePosition
    /\ SoldNow => Len(trades) = last.ntrades + 1
    /\ Len(trades) = Len(SellOrders)
    /\ \A n \in 1..Len(trades) : n <= Len(SellOrders) => TradeOfSell(n)

\* The latest step sold and raised in the TradeRecord of the sale.
RaisedInTradeRecord == SoldNow /\ last.action = "raise"

\* The same for the steps that do not raise in the TradeRecord.
EverySellClosesAndRecordsUnlessRaised ==
    /\ SellClosesWholePosition
    /\ ~RaisedInTradeRecord =>
          /\ SoldNow => Len(trades) = last.ntrades + 1
          /\ Len(trades) = Len(SellOrders)
          /\ \A n \in 1..Len(trades) : TradeOfSell(n)

\* What the books of a run add up to: the cash and the open positions at
\* their average price, and the initial equity and the pnl of the trades.
RECURSIVE BookValue(_)
BookValue(syms) ==
    IF syms = {} THEN Zero
    ELSE LET s == CHOOSE x \in syms : TRUE
         IN  RAdd(RMul(positions[s].quantity, positions[s].avg_price),
                  BookValue(syms \ {s}))
RECURSIVE PnlOf(_)
PnlOf(trade_list) ==
    IF trade_list = <<>> THEN Zero
    ELSE RAdd(Head(trade_list).pnl, PnlOf(Tail(trade_list)))

\* C29: at every point of a run, cash + sum of quantity * avg_price over the
\* open positions = initial equity + sum of the pnl of the TradeRecords.
C29_MoneyConserved ==
    pc # "start" =>
        RAdd(cash, BookValue(DOMAIN positions)) = RAdd(cfg.initial_equity, PnlOf(trades))

\* The same while run has not raised in a TradeRecord.
MoneyConservedUnlessRaised ==
    (pc # "start" /\ ~RaisedInTradeRecord) =>
        RAdd(cash, BookValue(DOMAIN positions)) = RAdd(cfg.initial_equity, PnlOf(trades))

---------------------------------------------------------------------------
(* More claims about the Portfolio (SpecPortfolio).                        *)

\* The last call was add_position with a buy order of positive quantity.
AddedBuy ==
    /\ last.op = "add_position"
    /\ last.order.side = "buy"
    /\ RGt(last.order.quantity, Zero)

\* The Position the last call's order is about, before the call.
Held == last.positions[last.order.symbol]

\* What a buy does to the cash and to the Position of its symbol.
BuyEffect ==
    /\ last.exc = "none"
    /\ cash = RSub(last.cash, RMul(last.order.quantity, last.order.price))
    /\ last.order.symbol \in DOMAIN positions
    /\ IF last.order.symbol \notin DOMAIN last.positions
       THEN positions[last.order.symbol] =
                Position(last.order.symbol, last.order.quantity, last.order.price)
       ELSE LET total_qty == RAdd(Held.quantity, last.order.quantity)
                weighted == RAdd(RMul(Held.avg_price, Held.quantity),
                                 RMul(last.order.price, last.order.quantity))
            IN  positions[last.order.symbol] =
                    [Held EXCEPT !.quantity = total_qty,
                                 !.avg_price = RDiv(weighted, total_qty)]

AddPositionBuysOnNonNegative ==
    (/\ AddedBuy
     /\ last.order.symbol \in DOMAIN last.positions => RGe(Held.quantity, Zero))
        => BuyEffect

\* C30: remove_position with a sell order reduces the position by
\* min(order quantity, held quantity), increases cash by that amount times
\* the order price and deletes the position when its quantity reaches zero;
\* with no position for the symbol it changes nothing, and an order whose
\* side is not sell raises an error and changes nothing.
C30_RemovePositionSellsAtMostHeld ==
    last.op = "remove_position" =>
        IF last.order.side # "sell"
        THEN last.exc = "ValueError" /\ cash = last.cash /\ positions = last.positions
        ELSE IF last.order.symbol \notin DOMAIN last.positions
        THEN last.exc = "none" /\ cash = last.cash /\ positions = last.positions
        ELSE LET sell_qty == RMin(last.order.quantity, Held.quantity)
                 left == RSub(Held.quantity, sell_qty)
             IN  /\ last.exc = "none"
                 /\ RLe(sell_qty, Held.quantity)
                 /\ cash = RAdd(last.cash, RMul(sell_qty, last.order.price))
                 /\ positions =
                        IF left = Zero
                        THEN DictDel(last.positions, last.order.symbol)
                        ELSE [last.positions EXCEPT ![last.order.symbol] =
                                 [Held EXCEPT !.quantity = left]]

\* A sell of more than the positive quantity held, paid for what was held,
\* after a Position with a stop was reduced and kept.
C30_Witness ==
    /\ last.op = "remove_position" /\ last.order.side = "sell"
    /\ last.order.symbol \in DOMAIN last.positions
    /\ RGt(Held.quantity, Zero)
    /\ RGt(last.order.quantity, Held.quantity)
    /\ last.order.symbol \notin DOMAIN positions
    /\ cash = RAdd(last.cash, RMul(Held.quantity, last.order.price))

====
